---- MODULE Spec2Model ----
(***************************************************************************)
(* Verification model of the spectosoft monitoring agent: the durable      *)
(* pending store and its delivery/retry engine (activity_service.rs,       *)
(* screenshot_service.rs, main.rs, video_service.rs), the audio/video      *)
(* synchronizer of video_service.rs, the segment lifecycle of              *)
(* video_main/recorder.rs and the start/stop lifecycle of the services.    *)
(* Each subsystem has its own specification over its own variables; the    *)
(* variables of the other subsystems stay at their initial value.          *)
(***************************************************************************)
EXTENDS Integers, Sequences, FiniteSets, TLC

(***************************************************************************)
(* Bounds of the model.                                                    *)
(***************************************************************************)
\* Number of artifact files one run of the pending-store model may hold or create.
MaxFiles == 2
\* Largest number K of leading upload failures in the retry-convergence scenario.
MaxK == 2

\* Frame budget of one recording session (total_frames_to_capture).
TotalFrames == 3
\* Number of audio packets the loopback device delivers in one session.
MaxAudioChunks == 3

Files == 1..MaxFiles

(***************************************************************************)
(* PART 1.  Durable pending store and delivery/retry engine.               *)
(***************************************************************************)
\* The artifact kinds, one per pending root and retry scanner.
\*   activity      : activity_logs_pending, retry_all_pending_activities
\*   screenshot    : screenshots_pending, retry_all_pending
\*   video_service : video_recordings_pending, video_service.rs retry_all_pending_videos
\*   video_main    : video_recordings_pending, main.rs retry_all_pending_videos
Kinds == {"activity", "screenshot", "video_service", "video_main"}

\* The threads that run a retry sweep on one pending root: the service's retry
\* thread (repeatedly) and the sweep spawned once by main's setup at launch.
Sweepers == {"retry", "startup"}

VARIABLES
    kind,        \* the artifact kind this run is about
    fstate,      \* file -> "absent" | "writing" | "complete" | "gone"
    immPc,       \* file -> "none" | "saved" | "tried" | "done": its immediate attempt
    immRes,      \* file -> result of the immediate upload attempt in progress
    swPc,        \* sweeper -> "idle" | "scan" | "tried" | "done"
    swList,      \* sweeper -> files collected by its directory listing
    swSeen,      \* sweeper -> files it has attempted in the current sweep
    swFile,      \* sweeper -> file of the attempt in progress (0: none)
    swRes,       \* sweeper -> result of the attempt in progress
    swDeleted,   \* scenario: sweeper -> files it removed in the current sweep
    swErrors,    \* scenario: sweeper -> files with a logged failure in the sweep
    failK,       \* -1: any attempt may fail; K >= 0: the first K attempts fail
    failLeft,    \* scenario: failures the uploader still has to return
    sweepsDone,  \* scenario: completed sweeps
    prevCleared, \* scenario: the last completed sweep uploaded and deleted all
    delFailed,   \* scenario: files whose removal after a success failed
    persisted,   \* history: files whose persist step has completed
    confirmed,   \* history: files with an upload attempt that returned success
    badDel,      \* history: files removed by a path whose attempt had failed
    netUp,       \* the uploader has recovered: every later attempt succeeds
    delivered    \* history: files whose whole payload was uploaded successfully

storeVars == <<kind, fstate, immPc, immRes, swPc, swList, swSeen, swFile, swRes,
               swDeleted, swErrors, failK, failLeft, sweepsDone, prevCleared,
               delFailed, persisted, confirmed, badDel, netUp, delivered>>

(***************************************************************************)
(* Variables of PART 2: one recording session of video_service.rs,         *)
(* Recorder::record with its two producer threads.                         *)
(***************************************************************************)
VARIABLES
    syPc,            \* record(): "idle" | "format" | "recv" | "drain" | "write"
                     \*           | "done" | "failed"
    has_audio,       \* an audio format arrived within the startup timeout
    stop_signal,     \* the session's stop flag, polled by both producers
    vChan,           \* video channel: timestamps of the frames in flight
    aChan,           \* audio channel: timestamps of the chunks in flight
    vProd,           \* run_video_capture: "off" | "run" | "ended"
    frame_num,       \* run_video_capture: frames sent so far
    video_timestamp, \* run_video_capture: timestamp of the next frame
    aProd,           \* run_audio_capture: "off" | "init" | "run" | "ended"
    formatSent,      \* the audio format is in the format channel
    audio_timestamp, \* run_audio_capture: timestamp of the next chunk
    packet_count,    \* run_audio_capture: chunks sent so far
    video_ts,        \* record(): timestamp of the frame being processed
    frames_written,  \* record(): video frames written
    container,       \* samples written to the sink writer, in order
    aDropped         \* history: chunks received from the channel, not written

syncVars == <<syPc, has_audio, stop_signal, vChan, aChan, vProd, frame_num,
              video_timestamp, aProd, formatSent, audio_timestamp, packet_count,
              video_ts, frames_written, container, aDropped>>

(***************************************************************************)
(* Variables of PART 3: one run of Recorder::run_blocking                  *)
(* (video_main/recorder.rs).  Time is counted in frame intervals.          *)
(***************************************************************************)
VARIABLES
    rbPc,       \* run_blocking: "off" | "init" | "loop" | "pace" | "final"
                \*               | "ok" | "err"
    stop,       \* the recorder's stop flag
    frames,     \* frames successfully written to the open segment
    segAge,     \* now - segment_start
    lag,        \* now - next_frame_time (negative: the next frame is not due)
    segIndex,   \* number of the open segment (0: none)
    segments,   \* segment -> [frames, fate, via, dir, day]: its frame counter
                \* when the writer was given up, what became of its file, by
                \* which path ("rotation" | "shutdown"), the day its
                \* directory is named after and the day it was given up
    today,      \* the UTC calendar day, counted from the day of the start
    output_dir  \* the day cfg.output_dir is named after

segVars == <<rbPc, stop, frames, segAge, lag, segIndex, segments, today,
             output_dir>>

(***************************************************************************)
(* Variables of PART 4: start/stop lifecycle of one service.               *)
(***************************************************************************)
VARIABLES
    svc,         \* the service this run is about
    is_running,  \* the service's running flag (a Mutex<bool>)
    stop_handle, \* VideoState.stop_handle: 0 (None) or the recorder thread
                 \* whose stop flag it holds
    thr,         \* the threads spawned so far: [role, pc, flag]
    callPc,      \* caller -> position inside the command it is executing
    callThr,     \* caller -> recorder it created in start_video_recording
    callRet,     \* caller -> "none" | "ok" | "err": what its last command returned
    lastOp,      \* the command entered last: "none" | "start" | "stop"
    lastCaller,  \* the caller that entered it
    nCalls,      \* commands entered so far
    nStops,      \* stop commands entered so far
    cmdFailed,   \* history: some command has returned an error
    stopFound    \* history: what the stop entered last found: "none"
                 \* | "stopped" | "running" | "busy"

lifeVars == <<svc, is_running, stop_handle, thr, callPc, callThr, callRet,
              lastOp, lastCaller, nCalls, nStops, cmdFailed, stopFound>>

(***************************************************************************)
(* Variables of PART 5: the locks of the activity service.                 *)
(***************************************************************************)
VARIABLES
    mPc,       \* run_main_monitor: "off" | "check" | "sleep" | "keys" | "clicks"
               \*   | "scrolls" | "save" | "mkdir" | "write" | "upload"
               \*   | "remove" | "end" | "exited"
    owner,     \* lock -> "none" | "monitor": the thread holding its guard
    mRunning,  \* is_activity_logging_running
    keys,      \* entries in keystroke_buffer
    clicks,    \* mouse_click_count
    scrolls,   \* mouse_scroll_count
    toLog,     \* length of activities_to_log
    nCycles,   \* passes of the monitor loop completed
    saveRes,   \* what save_and_try_upload returned in this pass:
               \*   "none" | "ok" | "err"
    listeners, \* threads inside listen(): run_input_monitor never returns
    iPc,       \* callbacks that have read the flag true and have not yet
               \*   counted their event
    iEv,       \* the event the callbacks are handling: "none" | "key"
               \*   | "click" | "scroll"
    occurred,  \* history: type -> events whose callback read the flag true
    reported   \* history: type -> sum of the counts put into batches

inputVars == <<listeners, iPc, iEv, occurred, reported>>

monVars == <<mPc, owner, mRunning, keys, clicks, scrolls, toLog, nCycles, saveRes,
             inputVars>>

(***************************************************************************)
(* Variables of PART 6: the loop of run_video_recorder around its sessions. *)
(***************************************************************************)
VARIABLES
    vrPc,             \* run_video_recorder: "off" | "top" | "begin" | "session"
                      \*   | "exited"
    vrRunning,        \* VideoServiceState.is_running
    recording_count,  \* recordings begun
    handed,           \* recordings handed to handle_video_upload_async
    stopMid           \* history: the stop command came while a session had
                      \* written some of its frames and not all

recVars == <<vrPc, vrRunning, recording_count, handed, stopMid>>

vars == <<storeVars, syncVars, segVars, lifeVars, monVars, recVars>>

\* Every step belongs to one subsystem and leaves the others alone.
StoreOnly == UNCHANGED <<syncVars, segVars, lifeVars, monVars, recVars>>
SyncOnly == UNCHANGED <<storeVars, segVars, lifeVars, monVars, recVars>>
SegOnly == UNCHANGED <<storeVars, syncVars, lifeVars, monVars, recVars>>
LifeOnly == UNCHANGED <<storeVars, syncVars, segVars, monVars, recVars>>
MonOnly == UNCHANGED <<storeVars, syncVars, segVars, lifeVars, recVars>>
RecOnly == UNCHANGED <<storeVars, segVars, lifeVars, monVars>>

\* The retry-convergence scenario: a pending directory holding N artifacts, an
\* uploader that fails its first K attempts, and sweeps run one after another.
Scenario == failK >= 0

\* A file is visible in its date directory from File::create / image save on,
\* until remove_file succeeds.
Present(f) == fstate[f] \in {"writing", "complete"}

Pending == {f \in Files : Present(f)}

\* The directory, below the kind's pending root, in which the kind's writer
\* creates its files.  start_video_recording hands <root>/<date> to the
\* Recorder, and run_blocking gives its segment writers output_dir.join("videos").
ArtifactDir(k) ==
    IF k = "video_main" THEN <<"date", "videos">> ELSE <<"date">>

\* Every scanner lists the entries of the pending root, takes those that are
\* directories, and lists the entries of each: it reaches the files that lie
\* directly in a date directory and nothing below.
InDateDir(dir) == dir = <<"date">>

\* The files of the run are where the scanner looks: the scenario places them
\* in a date directory, the running agent where the kind's writer creates them.
Scanned == Scenario \/ InDateDir(ArtifactDir(kind))

\* Kinds whose capture path makes an upload attempt right after persist.
\* start_video_recording and its recorder thread make none.
HasImmediate(k) == k # "video_main"

\* video_service hands the immediate attempt to a thread of its own and starts
\* the next recording at once; the other kinds upload in the capture thread.
AsyncImmediate(k) == k = "video_service"

\* retry_all_pending and main.rs retry_all_pending_videos collect the files of a
\* date directory into a vector before the first attempt; the other two scanners
\* attempt while iterating the directory.
SnapshotScan(k) == k \in {"screenshot", "video_main"}

\* Mutant: the listing also returns files that were removed.
ScanListingStale == {f \in Files : fstate[f] # "absent"}

\* What one directory listing returns: every file present with the kind's
\* extension, whether or not its writer has finished.
ScanListing == {f \in Files : Present(f) /\ Scanned}

\* Mutant: the sweep stops after its first attempt.
SweepCandidatesOnlyFirst(p) ==
    IF swSeen[p] # {} THEN {}
    ELSE IF SnapshotScan(kind) THEN swList[p] ELSE {f \in Files : Present(f)}

\* Mutant: a sweep passes over the files whose upload has succeeded before.
SweepCandidatesSkipConfirmed(p) ==
    (IF SnapshotScan(kind) THEN swList[p] \ swSeen[p]
     ELSE ScanListing \ swSeen[p]) \ confirmed

\* The files a sweeper may attempt next.
SweepCandidates(p) ==
    IF SnapshotScan(kind) THEN swList[p] \ swSeen[p]
    ELSE ScanListing \ swSeen[p]

\* Mutant: the upload does not read the file, so a missing file can be
\* reported as uploaded.
UploadResultsUnread(f) ==
    IF netUp THEN {"ok"}
    ELSE IF failK = -1 THEN {"ok", "fail"}
    ELSE IF failLeft > 0 THEN {"fail"}
    ELSE {"ok"}

\* What the POST of one attempt can come to: a response with a success
\* status, a response with another status, or an error of send().
SendOutcomes == {"success", "client_error", "server_error", "timeout", "connect"}

SendFailures == SendOutcomes \ {"success"}

\* Mutant: the status of the response is not looked at.
try_upload_unchecked(readable, sent) ==
    IF ~readable THEN "fail"
    ELSE IF sent \in {"timeout", "connect"} THEN "fail"
    ELSE "ok"

\* try_upload_file / try_upload_activity_file / try_upload_video_file: the
\* error of fs::read and the error of send() are returned by `?`, a response
\* is Ok(()) when status.is_success() and an Err otherwise.  The callers
\* match on Ok and Err only.
try_upload_file(readable, sent) ==
    IF ~readable THEN "fail"
    ELSE IF sent \in {"timeout", "connect"} THEN "fail"
    ELSE IF sent = "success" THEN "ok"
    ELSE "fail"

\* What the network lets one attempt come to: anything in the running agent,
\* success once the uploader has recovered, and in the scenario failures for
\* the first K attempts and success after.
SendResults ==
    IF netUp THEN {"success"}
    ELSE IF failK = -1 THEN SendOutcomes
    ELSE IF failLeft > 0 THEN SendFailures
    ELSE {"success"}

\* The results one attempt on f can return.
UploadResults(f) == {try_upload_file(Present(f), sent) : sent \in SendResults}

\* Mutant: remove_file is called whatever the upload returned.
ShouldDeleteAlways(res) == res \in {"ok", "fail"}

\* Mutant: the arms of the match are swapped.
ShouldDeleteOnFailure(res) == res = "fail"

\* The match on the upload result: only the Ok arm calls remove_file.
ShouldDelete(res) == res = "ok"

\* remove_file: fails on a missing file, and may fail on a present one.
RemoveResults(f) == IF Present(f) THEN {"ok", "fail"} ELSE {"fail"}

\* The capture thread is between creating a file and the end of its persist.
Writing == \E g \in Files : fstate[g] # "absent" /\ g \notin persisted

StoreStart ==
    /\ kind \in Kinds
    /\ \E n \in 0..MaxFiles :
          /\ fstate = [f \in Files |-> IF f <= n THEN "complete" ELSE "absent"]
          /\ persisted = {f \in Files : f <= n}
    /\ immPc = [f \in Files |-> "none"]
    /\ immRes = [f \in Files |-> "none"]
    /\ swPc = [p \in Sweepers |-> "idle"]
    /\ swList = [p \in Sweepers |-> {}]
    /\ swSeen = [p \in Sweepers |-> {}]
    /\ swFile = [p \in Sweepers |-> 0]
    /\ swRes = [p \in Sweepers |-> "none"]
    /\ swDeleted = [p \in Sweepers |-> {}]
    /\ swErrors = [p \in Sweepers |-> {}]
    /\ sweepsDone = 0
    /\ prevCleared = FALSE
    /\ delFailed = {}
    /\ confirmed = {}
    /\ badDel = {}
    /\ netUp = FALSE
    /\ delivered = {}

\* The running agent: files left by the previous run, a capture thread, the
\* retry thread and the launch sweep, and a network that may fail any attempt.
StoreInit ==
    /\ StoreStart
    /\ failK = -1
    /\ failLeft = 0

\* One upload attempt on f with result r.
AttemptEffect(f, r) ==
    /\ confirmed' = IF r = "ok" THEN confirmed \cup {f} ELSE confirmed
    /\ delivered' = IF r = "ok" /\ fstate[f] = "complete"
                    THEN delivered \cup {f} ELSE delivered
    /\ failLeft' = IF Present(f) /\ failLeft > 0 THEN failLeft - 1 ELSE failLeft

\* Mutant: the failure arm leaves the file cut short.
FinishEffectTruncates(f, res, del) ==
    /\ fstate' = IF ShouldDelete(res) /\ del = "ok"
                 THEN [fstate EXCEPT ![f] = "gone"]
                 ELSE IF res = "fail" /\ Present(f)
                 THEN [fstate EXCEPT ![f] = "writing"] ELSE fstate
    /\ badDel' = IF ShouldDelete(res) /\ del = "ok" /\ res # "ok"
                 THEN badDel \cup {f} ELSE badDel
    /\ delFailed' = IF Scenario /\ ShouldDelete(res) /\ del = "fail"
                    THEN delFailed \cup {f} ELSE delFailed

\* The arm taken after an attempt on f with result res; del is remove_file's
\* outcome when it is called.
FinishEffect(f, res, del) ==
    /\ fstate' = IF ShouldDelete(res) /\ del = "ok"
                 THEN [fstate EXCEPT ![f] = "gone"] ELSE fstate
    /\ badDel' = IF ShouldDelete(res) /\ del = "ok" /\ res # "ok"
                 THEN badDel \cup {f} ELSE badDel
    /\ delFailed' = IF Scenario /\ ShouldDelete(res) /\ del = "fail"
                    THEN delFailed \cup {f} ELSE delFailed

\* save_and_try_upload / take_save_and_try_upload / run_video_recorder / a
\* segment writer of run_blocking: the file is created under its final name
\* and extension.  For video_main the files are the segments the recorder
\* retains.
PersistCreate(f) ==
    /\ ~Scenario
    /\ fstate[f] = "absent"
    /\ \A g \in Files : g < f => fstate[g] # "absent"
    /\ ~Writing
    /\ AsyncImmediate(kind) \/ \A g \in Files : immPc[g] \notin {"saved", "tried"}
    /\ fstate' = [fstate EXCEPT ![f] = "writing"]
    /\ UNCHANGED <<kind, netUp, immPc, immRes, swPc, swList, swSeen, swFile, swRes,
                   swDeleted, swErrors, failK, failLeft, sweepsDone, prevCleared,
                   delFailed, persisted, confirmed, delivered, badDel>>
    /\ StoreOnly

\* write_all + sync_all / save / Finalize has returned: the payload is whole.
\* A file removed meanwhile stays removed (the writer holds only a handle).
PersistComplete(f) ==
    /\ fstate[f] # "absent"
    /\ f \notin persisted
    /\ fstate' = [fstate EXCEPT ![f] = IF @ = "writing" THEN "complete" ELSE @]
    /\ persisted' = persisted \cup {f}
    /\ immPc' = [immPc EXCEPT ![f] = IF HasImmediate(kind) THEN "saved" ELSE @]
    /\ UNCHANGED <<kind, netUp, immRes, swPc, swList, swSeen, swFile, swRes,
                   swDeleted, swErrors, failK, failLeft, sweepsDone, prevCleared,
                   delFailed, confirmed, delivered, badDel>>
    /\ StoreOnly

\* The immediate attempt right after persist.
ImmediateAttempt(f) ==
    /\ immPc[f] = "saved"
    /\ \E r \in UploadResults(f) :
          /\ immRes' = [immRes EXCEPT ![f] = r]
          /\ AttemptEffect(f, r)
    /\ immPc' = [immPc EXCEPT ![f] = "tried"]
    /\ UNCHANGED <<kind, netUp, fstate, swPc, swList, swSeen, swFile, swRes,
                   swDeleted, swErrors, failK, sweepsDone, prevCleared,
                   delFailed, persisted, badDel>>
    /\ StoreOnly

ImmediateFinish(f) ==
    /\ immPc[f] = "tried"
    /\ \E del \in RemoveResults(f) : FinishEffect(f, immRes[f], del)
    /\ immPc' = [immPc EXCEPT ![f] = "done"]
    /\ immRes' = [immRes EXCEPT ![f] = "none"]
    /\ UNCHANGED <<kind, netUp, swPc, swList, swSeen, swFile, swRes,
                   swDeleted, swErrors, failK, failLeft, sweepsDone, prevCleared,
                   persisted, confirmed, delivered>>
    /\ StoreOnly

\* The threads that call the kind's scanner in the running agent.  The video
\* service of video_service.rs has a retry thread and no launch sweep; the
\* scanner of main.rs is called by the launch sweep only.
RunsSweep(p, k) ==
    CASE k = "video_service" -> p = "retry"
      [] k = "video_main" -> p = "startup"
      [] OTHER -> TRUE

\* A retry sweep starts: read_dir of the pending root and of the date directory.
\* In the scenario the scanner is called again and again, one call at a time.
SweepStart(p) ==
    /\ swPc[p] = "idle"
    /\ Scenario \/ RunsSweep(p, kind)
    /\ Scenario => sweepsDone <= failK + 1
    /\ swPc' = [swPc EXCEPT ![p] = "scan"]
    /\ swList' = [swList EXCEPT
                    ![p] = IF SnapshotScan(kind) THEN ScanListing ELSE {}]
    /\ UNCHANGED <<kind, netUp, fstate, immPc, immRes, swSeen, swFile, swRes, swDeleted,
                   swErrors, failK, failLeft, sweepsDone, prevCleared, delFailed,
                   persisted, confirmed, delivered, badDel>>
    /\ StoreOnly

\* The sweep's upload attempt on its next file.
SweepAttempt(p, f) ==
    /\ swPc[p] = "scan"
    /\ f \in SweepCandidates(p)
    /\ \E r \in UploadResults(f) :
          /\ swRes' = [swRes EXCEPT ![p] = r]
          /\ AttemptEffect(f, r)
          /\ swErrors' = [swErrors EXCEPT
                ![p] = IF Scenario /\ r = "fail" THEN @ \cup {f} ELSE @]
    /\ swPc' = [swPc EXCEPT ![p] = "tried"]
    /\ swFile' = [swFile EXCEPT ![p] = f]
    /\ swSeen' = [swSeen EXCEPT ![p] = @ \cup {f}]
    /\ UNCHANGED <<kind, netUp, fstate, immPc, immRes, swList, swDeleted, failK,
                   sweepsDone, prevCleared, delFailed, persisted, badDel>>
    /\ StoreOnly

SweepFinish(p) ==
    /\ swPc[p] = "tried"
    /\ \E del \in RemoveResults(swFile[p]) :
          /\ FinishEffect(swFile[p], swRes[p], del)
          /\ swDeleted' = [swDeleted EXCEPT
                ![p] = IF Scenario /\ ShouldDelete(swRes[p]) /\ del = "ok"
                       THEN @ \cup {swFile[p]} ELSE @]
          /\ swErrors' = [swErrors EXCEPT
                ![p] = IF Scenario /\ ShouldDelete(swRes[p]) /\ del = "fail"
                       THEN @ \cup {swFile[p]} ELSE @]
    /\ swPc' = [swPc EXCEPT ![p] = "scan"]
    /\ swFile' = [swFile EXCEPT ![p] = 0]
    /\ swRes' = [swRes EXCEPT ![p] = "none"]
    /\ UNCHANGED <<kind, netUp, immPc, immRes, swList, swSeen, failK, failLeft,
                   sweepsDone, prevCleared, persisted, confirmed, delivered>>
    /\ StoreOnly

\* The sweep has no file left.  The retry thread sleeps and sweeps again; the
\* launch sweep's thread ends.
SweepEnd(p) ==
    /\ swPc[p] = "scan"
    /\ SweepCandidates(p) = {}
    /\ swPc' = [swPc EXCEPT ![p] = IF p = "startup" THEN "done" ELSE "idle"]
    /\ swList' = [swList EXCEPT ![p] = {}]
    /\ swSeen' = [swSeen EXCEPT ![p] = {}]
    /\ sweepsDone' = IF Scenario THEN sweepsDone + 1 ELSE sweepsDone
    /\ prevCleared' = (Scenario /\ swErrors[p] = {} /\ swDeleted[p] = swSeen[p]
                       /\ Pending = {})
    /\ swDeleted' = [swDeleted EXCEPT ![p] = {}]
    /\ swErrors' = [swErrors EXCEPT ![p] = {}]
    /\ UNCHANGED <<kind, netUp, fstate, immPc, immRes, swFile, swRes, failK, failLeft,
                   delFailed, persisted, confirmed, delivered, badDel>>
    /\ StoreOnly

StoreNext ==
    \/ \E f \in Files : PersistCreate(f)
    \/ \E f \in Files : PersistComplete(f)
    \/ \E f \in Files : ImmediateAttempt(f)
    \/ \E f \in Files : ImmediateFinish(f)
    \/ \E p \in Sweepers : SweepStart(p)
    \/ \E p \in Sweepers, f \in Files : SweepAttempt(p, f)
    \/ \E p \in Sweepers : SweepFinish(p)
    \/ \E p \in Sweepers : SweepEnd(p)

(***************************************************************************)
(* PART 2.  Recorder::record of video_service.rs: the video producer, the  *)
(* audio producer and the synchronizer loop that interleaves both streams. *)
(***************************************************************************)
\* frame_rate of record().
FrameRate == 30
\* Ticks of 100 ns in one second.
TicksPerSecond == 10000000
\* nSamplesPerSec of the device's mix format.
SampleRate == 48000
\* Sizes (in sample frames) of the packets GetBuffer may deliver.
AudioPacketFrames == {800, 1600}

\* Mutant: the step is taken from the frame interval in whole milliseconds.
FrameDurationFromMillis == (1000 \div FrameRate) * (TicksPerSecond \div 1000)

\* frame_duration_100ns of run_video_capture.
FrameDuration100ns == TicksPerSecond \div FrameRate

\* duration of a chunk of n sample frames in run_audio_capture:
\* (10_000_000 * n) / sample_rate in i64.  Both constants are multiples of
\* 1000, so the quotient is computed on the reduced fraction, which keeps the
\* product inside 32-bit integers.
ChunkDuration(n) == ((TicksPerSecond \div 1000) * n) \div (SampleRate \div 1000)

\* Mutant: a chunk stamped like the current frame is written before it.
AudioNotAfterVideo(audio_ts, vts) == audio_ts <= vts

\* The drain condition of the synchronizer: audio_ts < video_ts.
AudioBeforeVideo(audio_ts, vts) == audio_ts < vts

\* The receiving ends of both channels are dropped when record() returns.
ReceiversDropped == syPc \in {"done", "failed"}

SyncIdle ==
    /\ syPc = "idle"
    /\ has_audio = FALSE
    /\ stop_signal = FALSE
    /\ vChan = <<>>
    /\ aChan = <<>>
    /\ vProd = "off"
    /\ frame_num = 0
    /\ video_timestamp = 0
    /\ aProd = "off"
    /\ formatSent = FALSE
    /\ audio_timestamp = 0
    /\ packet_count = 0
    /\ video_ts = 0
    /\ frames_written = 0
    /\ container = <<>>
    /\ aDropped = {}

\* record() up to the spawn of the audio thread.
SyncInit ==
    /\ syPc = "format"
    /\ has_audio = FALSE
    /\ stop_signal = FALSE
    /\ vChan = <<>>
    /\ aChan = <<>>
    /\ vProd = "off"
    /\ frame_num = 0
    /\ video_timestamp = 0
    /\ aProd = "init"
    /\ formatSent = FALSE
    /\ audio_timestamp = 0
    /\ packet_count = 0
    /\ video_ts = 0
    /\ frames_written = 0
    /\ container = <<>>
    /\ aDropped = {}

\* run_audio_capture: the device is set up and the format is sent.
AudioStart ==
    /\ aProd = "init"
    /\ aProd' = "run"
    /\ formatSent' = TRUE
    /\ UNCHANGED <<syPc, has_audio, stop_signal, vChan, aChan, vProd, frame_num,
                   video_timestamp, audio_timestamp, packet_count, video_ts,
                   frames_written, container, aDropped>>
    /\ SyncOnly

\* run_audio_capture returns an error: from a set-up call before the format
\* is sent, or from GetNextPacketSize / GetBuffer / ReleaseBuffer in the loop.
AudioFail ==
    /\ aProd \in {"init", "run"}
    /\ aProd' = "ended"
    /\ UNCHANGED <<syPc, has_audio, stop_signal, vChan, aChan, vProd, frame_num,
                   video_timestamp, formatSent, audio_timestamp, packet_count,
                   video_ts, frames_written, container, aDropped>>
    /\ SyncOnly

\* run_audio_capture: the device has a packet of n sample frames and it is
\* sent with the running timestamp; a send on a closed channel ends the
\* thread.  Without a packet (packet_size == 0) the iteration sleeps and
\* changes nothing, so the closed channel is only seen when a packet comes.
AudioSend(n) ==
    /\ aProd = "run"
    /\ ~stop_signal
    /\ packet_count < MaxAudioChunks \/ ReceiversDropped
    /\ IF ReceiversDropped
       THEN /\ aProd' = "ended"
            /\ UNCHANGED <<aChan, audio_timestamp, packet_count>>
       ELSE /\ aChan' = Append(aChan, audio_timestamp)
            /\ audio_timestamp' = audio_timestamp + ChunkDuration(n)
            /\ packet_count' = packet_count + 1
            /\ UNCHANGED aProd
    /\ UNCHANGED <<syPc, has_audio, stop_signal, vChan, vProd, frame_num,
                   video_timestamp, formatSent, video_ts, frames_written,
                   container, aDropped>>
    /\ SyncOnly

\* run_audio_capture: the loop test sees the stop signal.
AudioStop ==
    /\ aProd = "run"
    /\ stop_signal
    /\ aProd' = "ended"
    /\ UNCHANGED <<syPc, has_audio, stop_signal, vChan, aChan, vProd, frame_num,
                   video_timestamp, formatSent, audio_timestamp, packet_count,
                   video_ts, frames_written, container, aDropped>>
    /\ SyncOnly

\* record(): the wait for the audio format ends with the format (audio
\* stream configured), with the 5 s timeout, or with the format channel
\* disconnected; then the video thread is spawned.
FormatWait ==
    /\ syPc = "format"
    /\ \/ formatSent /\ has_audio' = TRUE
       \/ has_audio' = FALSE
    /\ ~formatSent /\ aProd = "init" => has_audio' = FALSE
    /\ syPc' = "recv"
    /\ vProd' = "run"
    /\ UNCHANGED <<stop_signal, vChan, aChan, frame_num, video_timestamp, aProd,
                   formatSent, audio_timestamp, packet_count, video_ts,
                   frames_written, container, aDropped>>
    /\ SyncOnly

\* run_video_capture: one iteration of the frame loop.
VideoSend ==
    /\ vProd = "run"
    /\ IF frame_num >= TotalFrames \/ stop_signal \/ ReceiversDropped
       THEN /\ vProd' = "ended"
            /\ UNCHANGED <<vChan, frame_num, video_timestamp>>
       ELSE /\ vChan' = Append(vChan, video_timestamp)
            /\ video_timestamp' = video_timestamp + FrameDuration100ns
            /\ frame_num' = frame_num + 1
            /\ UNCHANGED vProd
    /\ UNCHANGED <<syPc, has_audio, stop_signal, aChan, aProd, formatSent,
                   audio_timestamp, packet_count, video_ts, frames_written,
                   container, aDropped>>
    /\ SyncOnly

\* Mutant: the drain loop is entered whether or not an audio stream exists.
RecvVideoAlwaysDrains ==
    /\ syPc = "recv"
    /\ vChan # <<>>
    /\ video_ts' = Head(vChan)
    /\ vChan' = Tail(vChan)
    /\ syPc' = "drain"
    /\ UNCHANGED <<has_audio, stop_signal, aChan, vProd, frame_num,
                   video_timestamp, aProd, formatSent, audio_timestamp,
                   packet_count, frames_written, container, aDropped>>
    /\ SyncOnly

\* record(): video_receiver.recv() returns the next frame.
RecvVideo ==
    /\ syPc = "recv"
    /\ vChan # <<>>
    /\ video_ts' = Head(vChan)
    /\ vChan' = Tail(vChan)
    /\ syPc' = IF has_audio THEN "drain" ELSE "write"
    /\ UNCHANGED <<has_audio, stop_signal, aChan, vProd, frame_num,
                   video_timestamp, aProd, formatSent, audio_timestamp,
                   packet_count, frames_written, container, aDropped>>
    /\ SyncOnly

\* record(): one audio_receiver.try_recv() of the drain loop.  Ok(chunk) takes
\* the chunk off the channel; it is written when it precedes the frame, and
\* otherwise the loop breaks with the chunk already received.
DrainAudio ==
    /\ syPc = "drain"
    /\ IF aChan = <<>>
       THEN /\ syPc' = "write"
            /\ UNCHANGED <<aChan, container, aDropped>>
       ELSE /\ aChan' = Tail(aChan)
            /\ IF AudioBeforeVideo(Head(aChan), video_ts)
               THEN /\ container' = Append(container, <<"audio", Head(aChan)>>)
                    /\ UNCHANGED <<syPc, aDropped>>
               ELSE /\ syPc' = "write"
                    /\ aDropped' = aDropped \cup {Head(aChan)}
                    /\ UNCHANGED container
    /\ UNCHANGED <<has_audio, stop_signal, vChan, vProd, frame_num,
                   video_timestamp, aProd, formatSent, audio_timestamp,
                   packet_count, video_ts, frames_written>>
    /\ SyncOnly

\* record(): the frame is written; after the last one the stop signal is set
\* and the sink writer finalized.
WriteVideo ==
    /\ syPc = "write"
    /\ container' = Append(container, <<"video", video_ts>>)
    /\ frames_written' = frames_written + 1
    /\ IF frames_written + 1 >= TotalFrames
       THEN syPc' = "done" /\ stop_signal' = TRUE
       ELSE syPc' = "recv" /\ UNCHANGED stop_signal
    /\ UNCHANGED <<has_audio, vChan, aChan, vProd, frame_num, video_timestamp,
                   aProd, formatSent, audio_timestamp, packet_count, video_ts,
                   aDropped>>
    /\ SyncOnly

\* record() returns early with the error of a Media Foundation call; the stop
\* signal is not set on this path.
RecordFail ==
    /\ syPc \in {"recv", "drain", "write"}
    /\ syPc' = "failed"
    /\ UNCHANGED <<has_audio, stop_signal, vChan, aChan, vProd, frame_num,
                   video_timestamp, aProd, formatSent, audio_timestamp,
                   packet_count, video_ts, frames_written, container, aDropped>>
    /\ SyncOnly

StoreIdle ==
    /\ kind = "video_service"
    /\ fstate = [f \in Files |-> "absent"]
    /\ persisted = {}
    /\ immPc = [f \in Files |-> "none"]
    /\ immRes = [f \in Files |-> "none"]
    /\ swPc = [p \in Sweepers |-> "idle"]
    /\ swList = [p \in Sweepers |-> {}]
    /\ swSeen = [p \in Sweepers |-> {}]
    /\ swFile = [p \in Sweepers |-> 0]
    /\ swRes = [p \in Sweepers |-> "none"]
    /\ swDeleted = [p \in Sweepers |-> {}]
    /\ swErrors = [p \in Sweepers |-> {}]
    /\ sweepsDone = 0
    /\ prevCleared = FALSE
    /\ delFailed = {}
    /\ confirmed = {}
    /\ badDel = {}
    /\ netUp = FALSE
    /\ delivered = {}
    /\ failK = -1
    /\ failLeft = 0

SyncNext ==
    \/ AudioStart
    \/ AudioFail
    \/ \E n \in AudioPacketFrames : AudioSend(n)
    \/ AudioStop
    \/ FormatWait
    \/ VideoSend
    \/ RecvVideo
    \/ DrainAudio
    \/ WriteVideo
    \/ RecordFail

\* Positions of the container that hold a sample of the given stream.
SamplesOf(stream) == {i \in DOMAIN container : container[i][1] = stream}

(***************************************************************************)
(* PART 3.  Segment lifecycle of Recorder::run_blocking.                   *)
(***************************************************************************)
\* cfg.fps and cfg.segment_duration.as_secs() of the run.
Fps == 2
SegmentSecs == 1
\* Segments one run may open.
MaxSegments == 2
\* Longest capture-and-encode of one frame, in frame intervals.
MaxCaptureTicks == 2
\* Largest distance the loop may fall behind its frame schedule.
MaxLag == 2

Segments == 1..MaxSegments

\* UTC midnights one run may cross.
MaxDays == 1

\* expected_frames = fps * segment_duration.as_secs()
ExpectedFrames == Fps * SegmentSecs

\* cfg.segment_duration in frame intervals (frame_interval = 1s / fps).
SegmentTicks == SegmentSecs * Fps

\* The outcomes of a call that returns a Result.
Outcomes == {"ok", "err"}

NoSegment == [frames |-> 0, fate |-> "none", via |-> "none", dir |-> -1,
              day |-> -1]

\* What the rotation branch does with the segment it finalizes: the file is
\* kept whatever its frame counter; a failed finalize is only logged.
RotationFate(n, fin) == IF fin = "ok" THEN "retained" ELSE "unfinalized"

\* What the final block does with the last segment: a finalized file with
\* fewer than expected_frames frames is removed.
ShutdownFate(n, fin) ==
    IF fin = "ok"
    THEN IF n < ExpectedFrames THEN "deleted" ELSE "retained"
    ELSE "unfinalized"

SegIdle ==
    /\ rbPc = "off"
    /\ stop = FALSE
    /\ frames = 0
    /\ segAge = 0
    /\ lag = 0
    /\ segIndex = 0
    /\ segments = [i \in Segments |-> NoSegment]
    /\ today = 0
    /\ output_dir = 0

\* start_video_recording has named output_dir after the day of the call
\* (get_dated_folder); Recorder::new: the stop flag is clear; run_blocking
\* has been entered.
SegInit ==
    /\ rbPc = "init"
    /\ stop = FALSE
    /\ frames = 0
    /\ segAge = 0
    /\ lag = 0
    /\ segIndex = 0
    /\ segments = [i \in Segments |-> NoSegment]
    /\ today = 0
    /\ output_dir = 0

\* The first writer is created; segment_start and next_frame_time are "now".
CreateFirstWriter(res) ==
    /\ rbPc = "init"
    /\ IF res = "ok"
       THEN /\ rbPc' = "loop"
            /\ segIndex' = 1
            /\ segments' = [segments EXCEPT
                   ![1] = [@ EXCEPT !.fate = "open", !.dir = output_dir]]
       ELSE /\ rbPc' = "err"
            /\ UNCHANGED <<segIndex, segments>>
    /\ UNCHANGED <<stop, frames, segAge, lag>>
    /\ UNCHANGED <<today, output_dir>>
    /\ SegOnly

\* The owner of the stop flag stores true into it.
RequestStop ==
    /\ rbPc \in {"init", "loop", "pace"}
    /\ ~stop
    /\ stop' = TRUE
    /\ UNCHANGED <<rbPc, frames, segAge, lag, segIndex, segments>>
    /\ UNCHANGED <<today, output_dir>>
    /\ SegOnly

\* while !stop: the loop condition sees the flag set.
ObserveStop ==
    /\ rbPc = "loop"
    /\ stop
    /\ rbPc' = "final"
    /\ UNCHANGED <<stop, frames, segAge, lag, segIndex, segments>>
    /\ UNCHANGED <<today, output_dir>>
    /\ SegOnly

\* The rotation branch: the segment duration has elapsed.  A new writer is
\* created first; if that fails run_blocking returns the error and the old
\* writer is dropped without finalize.  Otherwise the old writer is finalized
\* and the counters restart.
RotateSegment(created, fin) ==
    /\ rbPc = "loop"
    /\ ~stop
    /\ segAge >= SegmentTicks
    /\ segIndex < MaxSegments
    /\ IF created = "ok"
       THEN /\ segments' = [segments EXCEPT
                   ![segIndex] = [@ EXCEPT
                                     !.frames = frames,
                                     !.fate = RotationFate(frames, fin),
                                     !.via = "rotation",
                                     !.day = today],
                   ![segIndex + 1] = [@ EXCEPT !.fate = "open",
                                                !.dir = output_dir]]
            /\ segIndex' = segIndex + 1
            /\ segAge' = 0
            /\ frames' = 0
            /\ rbPc' = "pace"
       ELSE /\ segments' = [segments EXCEPT
                   ![segIndex] = [@ EXCEPT !.frames = frames,
                                              !.fate = "unfinalized",
                                              !.via = "rotation",
                                              !.day = today]]
            /\ rbPc' = "err"
            /\ UNCHANGED <<segIndex, segAge, frames>>
    /\ UNCHANGED <<stop, lag>>
    /\ UNCHANGED <<today, output_dir>>
    /\ SegOnly

\* Mutant: the pacing test is reached without the test of the segment's age.
AtPacingIgnoresDuration == rbPc = "pace" \/ (rbPc = "loop" /\ ~stop)

\* The iteration is at the pacing test: after a rotation, or straight from
\* the loop condition when no rotation is due.
AtPacing ==
    \/ rbPc = "pace"
    \/ rbPc = "loop" /\ ~stop /\ segAge < SegmentTicks

\* now < next_frame_time: sleep until the frame is due, then continue.
SleepUntilDue ==
    /\ AtPacing
    /\ lag < 0
    /\ segAge' = segAge - lag
    /\ lag' = 0
    /\ rbPc' = "loop"
    /\ UNCHANGED <<stop, frames, segIndex, segments>>
    /\ UNCHANGED <<today, output_dir>>
    /\ SegOnly

\* The frame is due: next_frame_time advances by one interval, the screen is
\* captured and encoded (taking d intervals), and frames counts the frame only
\* if the writer accepted it.
CaptureFrame(d, written) ==
    /\ AtPacing
    /\ lag >= 0
    /\ lag - 1 + d <= MaxLag
    /\ lag' = lag - 1 + d
    /\ segAge' = segAge + d
    /\ frames' = IF written = "ok" THEN frames + 1 ELSE frames
    /\ rbPc' = "loop"
    /\ UNCHANGED <<stop, segIndex, segments>>
    /\ UNCHANGED <<today, output_dir>>
    /\ SegOnly

\* After the loop: the last writer is finalized and checked.
FinalizeLast(fin) ==
    /\ rbPc = "final"
    /\ segments' = [segments EXCEPT
           ![segIndex] = [@ EXCEPT !.frames = frames,
                                      !.fate = ShutdownFate(frames, fin),
                                      !.via = "shutdown",
                                      !.day = today]]
    /\ rbPc' = "ok"
    /\ UNCHANGED <<stop, frames, segAge, lag, segIndex>>
    /\ UNCHANGED <<today, output_dir>>
    /\ SegOnly

\* The UTC day changes while the recorder runs.
Midnight ==
    /\ rbPc \in {"init", "loop", "pace", "final"}
    /\ today < MaxDays
    /\ today' = today + 1
    /\ UNCHANGED <<rbPc, stop, frames, segAge, lag, segIndex, segments,
                   output_dir>>
    /\ SegOnly

SegNext ==
    \/ Midnight
    \/ \E res \in Outcomes : CreateFirstWriter(res)
    \/ RequestStop
    \/ ObserveStop
    \/ \E created, fin \in Outcomes : RotateSegment(created, fin)
    \/ SleepUntilDue
    \/ \E d \in 0..MaxCaptureTicks, written \in Outcomes : CaptureFrame(d, written)
    \/ \E fin \in Outcomes : FinalizeLast(fin)

\* Segments whose writer was finalized successfully.
Finalized == {i \in Segments : segments[i].fate \in {"retained", "deleted"}}

(***************************************************************************)
(* PART 4.  Start/stop lifecycle of the services.                          *)
(***************************************************************************)
\* Commands one run may enter, and the threads of the command pool that may
\* execute commands at the same time.
MaxCalls == 3
MaxCallers == 2

Callers == 1..MaxCallers

\* screenshot    : start_screenshot_service / stop_screenshot_service
\* activity      : start_activity_logging_service / stop_activity_logging_service
\* video         : start_video_recording / stop_video_recording (main.rs)
\* video_service : start_video_recording_service / stop_video_recording_service
Services == {"screenshot", "activity", "video", "video_service"}

Thread(role, pc) == [role |-> role, pc |-> pc, flag |-> FALSE]

\* The threads a start command spawns itself, in order.
InitialThreads(s) ==
    CASE s = "screenshot" -> <<Thread("capture", "setup")>>
      [] s = "activity" -> <<Thread("input", "loop"), Thread("monitor", "setup"),
                             Thread("retry", "setup")>>
      [] s = "video_service" -> <<Thread("capture", "setup"), Thread("retry", "setup")>>
      [] OTHER -> <<>>

\* The roles that make up one set of the service's threads.
Roles(s) ==
    CASE s = "screenshot" -> {"capture", "retry"}
      [] s = "activity" -> {"input", "monitor", "retry"}
      [] s = "video_service" -> {"capture", "retry"}
      [] OTHER -> {"recorder"}

\* The test every start command makes under the flag's lock.
AlreadyRunningNever == FALSE

AlreadyRunning == is_running

\* Threads that exist and have not finished their work.
Live(role) ==
    {t \in DOMAIN thr : thr[t].role = role
                        /\ thr[t].pc \in {"new", "setup", "loop", "run"}}

LifeIdle ==
    /\ svc = "none"
    /\ is_running = FALSE
    /\ stop_handle = 0
    /\ thr = <<>>
    /\ callPc = [c \in Callers |-> "idle"]
    /\ callThr = [c \in Callers |-> 0]
    /\ callRet = [c \in Callers |-> "none"]
    /\ lastOp = "none"
    /\ lastCaller = 0
    /\ nCalls = 0
    /\ nStops = 0
    /\ cmdFailed = FALSE
    /\ stopFound = "none"

\* MainAppState as main() builds it: every flag false, no stop handle.
LifeInit ==
    /\ svc \in Services
    /\ is_running = FALSE
    /\ stop_handle = 0
    /\ thr = <<>>
    /\ callPc = [c \in Callers |-> "idle"]
    /\ callThr = [c \in Callers |-> 0]
    /\ callRet = [c \in Callers |-> "none"]
    /\ lastOp = "none"
    /\ lastCaller = 0
    /\ nCalls = 0
    /\ nStops = 0
    /\ cmdFailed = FALSE
    /\ stopFound = "none"

\* The service is stopped as far as its callers can tell: no command is being
\* executed, and no start has been entered since the last stop (or ever).
Stopped ==
    /\ lastOp \in {"none", "stop"}
    /\ \A c \in Callers : callPc[c] = "idle"

\* The service is running as far as its callers can tell: no command is
\* being executed, and the command entered last was a start that returned Ok.
Running ==
    /\ lastOp = "start"
    /\ \A c \in Callers : callPc[c] = "idle"
    /\ callRet[lastCaller] = "ok"

\* A start command up to the end of its locked block: it returns at once if
\* the flag is set, otherwise it sets the flag and goes on.
StartCall(c) ==
    /\ callPc[c] = "idle"
    /\ nCalls < MaxCalls
    /\ nCalls' = nCalls + 1
    /\ lastOp' = "start"
    /\ lastCaller' = c
    /\ stopFound' = "none"
    /\ IF AlreadyRunning
       THEN /\ callRet' = [callRet EXCEPT ![c] = "ok"]
            /\ UNCHANGED <<is_running, callPc>>
       ELSE /\ is_running' = TRUE
            /\ callPc' = [callPc EXCEPT ![c] = IF svc = "video" THEN "resolve"
                                               ELSE "spawn"]
            /\ callRet' = [callRet EXCEPT ![c] = "none"]
    /\ UNCHANGED <<svc, stop_handle, thr, callThr, nStops, cmdFailed>>
    /\ LifeOnly

\* The rest of a start command of the flag-polled services: spawn and return.
SpawnThreads(c) ==
    /\ callPc[c] = "spawn"
    /\ svc # "video"
    /\ thr' = thr \o InitialThreads(svc)
    /\ callPc' = [callPc EXCEPT ![c] = "idle"]
    /\ callRet' = [callRet EXCEPT ![c] = "ok"]
    /\ UNCHANGED <<svc, stopFound, is_running, stop_handle, callThr, lastOp, lastCaller,
                   nCalls, nStops, cmdFailed>>
    /\ LifeOnly

\* start_video_recording resolves the app data directory; on failure the
\* command returns the error with the flag left set.
ResolveDir(c, res) ==
    /\ callPc[c] = "resolve"
    /\ IF res = "ok"
       THEN /\ callPc' = [callPc EXCEPT ![c] = "handle"]
            /\ UNCHANGED <<callRet, cmdFailed>>
       ELSE /\ callPc' = [callPc EXCEPT ![c] = "idle"]
            /\ callRet' = [callRet EXCEPT ![c] = "err"]
            /\ cmdFailed' = TRUE
    /\ UNCHANGED <<svc, stopFound, is_running, stop_handle, thr, callThr, lastOp,
                   lastCaller, nCalls, nStops>>
    /\ LifeOnly

\* Recorder::new and the store of its stop flag into stop_handle.
SetHandle(c) ==
    /\ callPc[c] = "handle"
    /\ thr' = Append(thr, Thread("recorder", "new"))
    /\ stop_handle' = Len(thr) + 1
    /\ callThr' = [callThr EXCEPT ![c] = Len(thr) + 1]
    /\ callPc' = [callPc EXCEPT ![c] = "spawn"]
    /\ UNCHANGED <<svc, stopFound, is_running, callRet, lastOp, lastCaller, nCalls, nStops, cmdFailed>>
    /\ LifeOnly

\* The recorder thread is spawned and start_video_recording returns Ok.
SpawnRecorder(c) ==
    /\ callPc[c] = "spawn"
    /\ svc = "video"
    /\ thr' = [thr EXCEPT ![callThr[c]].pc = "run"]
    /\ callThr' = [callThr EXCEPT ![c] = 0]
    /\ callPc' = [callPc EXCEPT ![c] = "idle"]
    /\ callRet' = [callRet EXCEPT ![c] = "ok"]
    /\ UNCHANGED <<svc, stopFound, is_running, stop_handle, lastOp, lastCaller, nCalls, nStops, cmdFailed>>
    /\ LifeOnly

\* A stop command.  The flag-polled services clear the flag and return;
\* stop_video_recording first reads the flag and returns Ok if it is clear.
StopCall(c) ==
    /\ callPc[c] = "idle"
    /\ nCalls < MaxCalls
    /\ nCalls' = nCalls + 1
    /\ nStops' = nStops + 1
    /\ lastOp' = "stop"
    /\ lastCaller' = c
    /\ stopFound' = IF Stopped THEN "stopped"
                    ELSE IF Running THEN "running" ELSE "busy"
    /\ IF svc # "video"
       THEN /\ is_running' = FALSE
            /\ callRet' = [callRet EXCEPT ![c] = "ok"]
            /\ UNCHANGED callPc
       ELSE /\ UNCHANGED is_running
            /\ IF is_running
               THEN /\ callPc' = [callPc EXCEPT ![c] = "take"]
                    /\ callRet' = [callRet EXCEPT ![c] = "none"]
               ELSE /\ callRet' = [callRet EXCEPT ![c] = "ok"]
                    /\ UNCHANGED callPc
    /\ UNCHANGED <<svc, stop_handle, thr, callThr, cmdFailed>>
    /\ LifeOnly

\* stop_video_recording takes the handle and signals the recorder, or falls
\* back to clearing the flag and returning an error when there is no handle.
TakeHandle(c) ==
    /\ callPc[c] = "take"
    /\ IF stop_handle # 0
       THEN /\ thr' = [thr EXCEPT ![stop_handle].flag = TRUE]
            /\ stop_handle' = 0
            /\ callRet' = [callRet EXCEPT ![c] = "ok"]
            /\ UNCHANGED <<is_running, cmdFailed>>
       ELSE /\ is_running' = FALSE
            /\ callRet' = [callRet EXCEPT ![c] = "err"]
            /\ cmdFailed' = TRUE
            /\ UNCHANGED <<thr, stop_handle>>
    /\ callPc' = [callPc EXCEPT ![c] = "idle"]
    /\ UNCHANGED <<svc, stopFound, callThr, lastOp, lastCaller, nCalls, nStops>>
    /\ LifeOnly

\* A thread finishes its setup and enters its loop; the screenshot capture
\* thread spawns the retry thread on the way.
SetupDone(t) ==
    /\ t \in DOMAIN thr
    /\ thr[t].pc = "setup"
    /\ thr' = IF svc = "screenshot" /\ thr[t].role = "capture"
              THEN Append([thr EXCEPT ![t].pc = "loop"], Thread("retry", "loop"))
              ELSE [thr EXCEPT ![t].pc = "loop"]
    /\ UNCHANGED <<svc, stopFound, is_running, stop_handle, callPc, callThr, callRet,
                   lastOp, lastCaller, nCalls, nStops, cmdFailed>>
    /\ LifeOnly

\* A thread's setup fails (pending directory not creatable, app data
\* directory not resolvable): the thread ends, the flag stays as it is.
SetupFail(t) ==
    /\ t \in DOMAIN thr
    /\ thr[t].pc = "setup"
    /\ thr' = [thr EXCEPT ![t].pc = "failed"]
    /\ UNCHANGED <<svc, stopFound, is_running, stop_handle, callPc, callThr, callRet,
                   lastOp, lastCaller, nCalls, nStops, cmdFailed>>
    /\ LifeOnly

\* A polling thread reads the flag at the top of its loop, finds it clear and
\* breaks.  The input monitor has no such test: listen() only returns on error.
ExitOnStop(t) ==
    /\ t \in DOMAIN thr
    /\ thr[t].pc = "loop"
    /\ thr[t].role # "input"
    /\ ~is_running
    /\ thr' = [thr EXCEPT ![t].pc = "exited"]
    /\ UNCHANGED <<svc, stopFound, is_running, stop_handle, callPc, callThr, callRet,
                   lastOp, lastCaller, nCalls, nStops, cmdFailed>>
    /\ LifeOnly

ListenFail(t) ==
    /\ t \in DOMAIN thr
    /\ thr[t].role = "input"
    /\ thr[t].pc = "loop"
    /\ thr' = [thr EXCEPT ![t].pc = "exited"]
    /\ UNCHANGED <<svc, stopFound, is_running, stop_handle, callPc, callThr, callRet,
                   lastOp, lastCaller, nCalls, nStops, cmdFailed>>
    /\ LifeOnly

\* run_blocking returns: its stop flag was set, or it failed.
RecorderReturn(t) ==
    /\ t \in DOMAIN thr
    /\ thr[t].role = "recorder"
    /\ thr[t].pc = "run"
    /\ thr' = [thr EXCEPT ![t].pc = "returned"]
    /\ UNCHANGED <<svc, stopFound, is_running, stop_handle, callPc, callThr, callRet,
                   lastOp, lastCaller, nCalls, nStops, cmdFailed>>
    /\ LifeOnly

\* The recorder thread's cleanup, first lock: is_running = false.
RecorderResetRunning(t) ==
    /\ t \in DOMAIN thr
    /\ thr[t].pc = "returned"
    /\ is_running' = FALSE
    /\ thr' = [thr EXCEPT ![t].pc = "reset"]
    /\ UNCHANGED <<svc, stopFound, stop_handle, callPc, callThr, callRet, lastOp,
                   lastCaller, nCalls, nStops, cmdFailed>>
    /\ LifeOnly

\* The recorder thread's cleanup, second lock: stop_handle = None.
RecorderClearHandle(t) ==
    /\ t \in DOMAIN thr
    /\ thr[t].pc = "reset"
    /\ stop_handle' = 0
    /\ thr' = [thr EXCEPT ![t].pc = "exited"]
    /\ UNCHANGED <<svc, stopFound, is_running, callPc, callThr, callRet, lastOp,
                   lastCaller, nCalls, nStops, cmdFailed>>
    /\ LifeOnly

\* Threads one run can create: at most three per command.
ThreadIds == 1..(3 * MaxCalls)

LifeNext ==
    \/ \E c \in Callers : StartCall(c)
    \/ \E c \in Callers : SpawnThreads(c)
    \/ \E c \in Callers, res \in Outcomes : ResolveDir(c, res)
    \/ \E c \in Callers : SetHandle(c)
    \/ \E c \in Callers : SpawnRecorder(c)
    \/ \E c \in Callers : StopCall(c)
    \/ \E c \in Callers : TakeHandle(c)
    \/ \E t \in ThreadIds : SetupDone(t)
    \/ \E t \in ThreadIds : SetupFail(t)
    \/ \E t \in ThreadIds : ExitOnStop(t)
    \/ \E t \in ThreadIds : ListenFail(t)
    \/ \E t \in ThreadIds : RecorderReturn(t)
    \/ \E t \in ThreadIds : RecorderResetRunning(t)
    \/ \E t \in ThreadIds : RecorderClearHandle(t)

(***************************************************************************)
(* PART 5.  Locks of the activity service: one pass of run_main_monitor    *)
(* with save_and_try_upload, beside the callback of run_input_monitor.     *)
(***************************************************************************)
\* Input events delivered in one run, and passes of the monitor loop in one
\* run.
MaxEvents == 2
MaxCycles == 2
\* Starts of the service in one run; each leaves one more thread in listen().
MaxListeners == 2

EventTypes == {"key", "click", "scroll"}

\* The event types that are counted.
Counted == {"click", "scroll"}

Locks == {"is_running", "keystroke_buffer", "mouse_click_count",
          "mouse_scroll_count", "meta_lock"}

\* The monitor thread is inside a blocking call: create_dir_all, the file's
\* create/write_all/sync_all, the upload (fs::read and the HTTP POST), or
\* remove_file.
Blocking(pc) == pc \in {"mkdir", "write", "upload", "remove"}

HeldBy(who) == {l \in Locks : owner[l] = who}

MonIdle ==
    /\ mPc = "off"
    /\ owner = [l \in Locks |-> "none"]
    /\ mRunning = FALSE
    /\ keys = 0
    /\ clicks = 0
    /\ scrolls = 0
    /\ toLog = 0
    /\ nCycles = 0
    /\ saveRes = "none"
    /\ listeners = 0
    /\ iPc = 0
    /\ iEv = "none"
    /\ occurred = [e \in EventTypes |-> 0]
    /\ reported = [e \in Counted |-> 0]

\* The state in which start_activity_logging_service has spawned the threads.
MonInit ==
    /\ mPc = "check"
    /\ owner = [l \in Locks |-> "none"]
    /\ mRunning = TRUE
    /\ keys = 0
    /\ clicks = 0
    /\ scrolls = 0
    /\ toLog = 0
    /\ nCycles = 0
    /\ saveRes = "none"
    /\ listeners = 1
    /\ iPc = 0
    /\ iEv = "none"
    /\ occurred = [e \in EventTypes |-> 0]
    /\ reported = [e \in Counted |-> 0]

\* stop_activity_logging_service: lock the flag, clear it, unlock.
MonStop ==
    /\ mPc # "off"
    /\ mRunning
    /\ owner["is_running"] = "none"
    /\ mRunning' = FALSE
    /\ UNCHANGED <<mPc, owner, keys, clicks, scrolls, toLog, nCycles, saveRes>>
    /\ UNCHANGED inputVars
    /\ MonOnly

\* start_activity_logging_service called again after a stop (modelled for the
\* case that the main monitor of the previous start has left its loop): the
\* flag is set and the three threads are spawned.  The thread of the previous
\* start that is inside listen() stays there, and the counters are not reset.
MonStart ==
    /\ mPc = "exited"
    /\ owner["is_running"] = "none"
    /\ ~mRunning
    /\ listeners < MaxListeners
    /\ mRunning' = TRUE
    /\ listeners' = listeners + 1
    /\ mPc' = "check"
    /\ UNCHANGED <<owner, keys, clicks, scrolls, toLog, nCycles, saveRes,
                   iPc, iEv, occurred, reported>>
    /\ MonOnly

\* The lock a callback takes for an event of type e.
LockOf(e) ==
    CASE e = "key" -> "keystroke_buffer"
      [] e = "click" -> "mouse_click_count"
      [] OTHER -> "mouse_scroll_count"

\* An input event (a key press, a button press, a wheel event with
\* delta_y # 0) is delivered to every thread that is inside listen().  Each
\* callback reads the flag under its lock and returns if it is false;
\* otherwise it goes on to lock the buffer or counter of the event's type.
InputEvent(e) ==
    /\ mPc # "off"
    /\ iEv = "none"
    /\ owner["is_running"] = "none"
    /\ mRunning
    /\ occurred["key"] + occurred["click"] + occurred["scroll"] < MaxEvents
    /\ iEv' = e
    /\ iPc' = listeners
    /\ occurred' = [occurred EXCEPT ![e] = @ + 1]
    /\ UNCHANGED <<mPc, owner, mRunning, keys, clicks, scrolls, toLog, nCycles,
                   saveRes, listeners, reported>>
    /\ MonOnly

\* One of the waiting callbacks locks the buffer or counter for one update
\* and returns.  It waits while the monitor thread holds that lock.
InputCount ==
    /\ iPc > 0
    /\ owner[LockOf(iEv)] = "none"
    /\ CASE iEv = "key" -> keys' = keys + 1 /\ UNCHANGED <<clicks, scrolls>>
         [] iEv = "click" -> clicks' = clicks + 1 /\ UNCHANGED <<keys, scrolls>>
         [] OTHER -> scrolls' = scrolls + 1 /\ UNCHANGED <<keys, clicks>>
    /\ iPc' = iPc - 1
    /\ iEv' = IF iPc = 1 THEN "none" ELSE iEv
    /\ UNCHANGED <<mPc, owner, mRunning, toLog, nCycles, saveRes, listeners,
                   occurred, reported>>
    /\ MonOnly

\* Top of the monitor loop: the flag is read under its lock.
MonCheck ==
    /\ mPc = "check"
    /\ owner["is_running"] = "none"
    /\ mRunning => nCycles < MaxCycles
    /\ mPc' = IF mRunning THEN "sleep" ELSE "exited"
    /\ UNCHANGED <<owner, mRunning, keys, clicks, scrolls, toLog, nCycles, saveRes>>
    /\ UNCHANGED inputVars
    /\ MonOnly

\* thread::sleep(30 s), then the active window is compared with the last one.
MonSleep(changed) ==
    /\ mPc = "sleep"
    /\ toLog' = IF changed THEN 1 ELSE 0
    /\ mPc' = "keys"
    /\ UNCHANGED <<owner, mRunning, keys, clicks, scrolls, nCycles, saveRes>>
    /\ UNCHANGED inputVars
    /\ MonOnly

\* Mutant: the keystroke buffer is read into the batch but not cleared.
MonTakeKeysKeepsBuffer ==
    /\ mPc = "keys"
    /\ owner["keystroke_buffer"] = "none"
    /\ owner' = [owner EXCEPT !["keystroke_buffer"] = "monitor"]
    /\ toLog' = IF keys > 0 THEN toLog + 1 ELSE toLog
    /\ mPc' = "clicks"
    /\ UNCHANGED <<mRunning, keys, clicks, scrolls, nCycles, saveRes>>
    /\ UNCHANGED inputVars
    /\ MonOnly

\* let mut buffer = keystroke_buffer.lock(): the guard lives to the end of
\* the loop body.
MonTakeKeys ==
    /\ mPc = "keys"
    /\ owner["keystroke_buffer"] = "none"
    /\ owner' = [owner EXCEPT !["keystroke_buffer"] = "monitor"]
    /\ toLog' = IF keys > 0 THEN toLog + 1 ELSE toLog
    /\ keys' = 0
    /\ mPc' = "clicks"
    /\ UNCHANGED <<mRunning, clicks, scrolls, nCycles, saveRes>>
    /\ UNCHANGED inputVars
    /\ MonOnly

\* let mut clicks = mouse_click_count.lock(): likewise.
MonTakeClicks ==
    /\ mPc = "clicks"
    /\ owner["mouse_click_count"] = "none"
    /\ owner' = [owner EXCEPT !["mouse_click_count"] = "monitor"]
    /\ toLog' = IF clicks > 0 THEN toLog + 1 ELSE toLog
    /\ clicks' = 0
    /\ reported' = [reported EXCEPT !["click"] = @ + clicks]
    /\ mPc' = "scrolls"
    /\ UNCHANGED <<mRunning, keys, scrolls, nCycles, saveRes>>
    /\ UNCHANGED <<listeners, iPc, iEv, occurred>>
    /\ MonOnly

\* let mut scrolls = mouse_scroll_count.lock(): likewise; then the test
\* whether there is anything to log.
MonTakeScrolls ==
    /\ mPc = "scrolls"
    /\ owner["mouse_scroll_count"] = "none"
    /\ owner' = [owner EXCEPT !["mouse_scroll_count"] = "monitor"]
    /\ toLog' = IF scrolls > 0 THEN toLog + 1 ELSE toLog
    /\ scrolls' = 0
    /\ reported' = [reported EXCEPT !["scroll"] = @ + scrolls]
    /\ mPc' = IF toLog' > 0 THEN "save" ELSE "end"
    /\ UNCHANGED <<mRunning, keys, clicks, nCycles, saveRes>>
    /\ UNCHANGED <<listeners, iPc, iEv, occurred>>
    /\ MonOnly

\* save_and_try_upload takes meta_lock and goes on to create_dir_all.
MonLockMeta ==
    /\ mPc = "save"
    /\ owner["meta_lock"] = "none"
    /\ owner' = [owner EXCEPT !["meta_lock"] = "monitor"]
    /\ mPc' = "mkdir"
    /\ UNCHANGED <<mRunning, keys, clicks, scrolls, toLog, nCycles, saveRes>>
    /\ UNCHANGED inputVars
    /\ MonOnly

\* create_dir_all returns; on error the function returns and drops its guard.
MonMkdir(res) ==
    /\ mPc = "mkdir"
    /\ IF res = "ok"
       THEN /\ mPc' = "write"
            /\ UNCHANGED <<owner, saveRes>>
       ELSE /\ mPc' = "end"
            /\ owner' = [owner EXCEPT !["meta_lock"] = "none"]
            /\ saveRes' = "err"
    /\ UNCHANGED <<mRunning, keys, clicks, scrolls, toLog, nCycles>>
    /\ UNCHANGED inputVars
    /\ MonOnly

\* File::create, write_all and sync_all return; the guard is dropped, by
\* drop(_guard) or by the error return.
MonWrite(res) ==
    /\ mPc = "write"
    /\ owner' = [owner EXCEPT !["meta_lock"] = "none"]
    /\ mPc' = IF res = "ok" THEN "upload" ELSE "end"
    /\ saveRes' = IF res = "ok" THEN saveRes ELSE "err"
    /\ UNCHANGED <<mRunning, keys, clicks, scrolls, toLog, nCycles>>
    /\ UNCHANGED inputVars
    /\ MonOnly

\* try_upload_activity_file returns; after a failed upload the function
\* returns Ok(()).
MonUpload(res) ==
    /\ mPc = "upload"
    /\ mPc' = IF res = "ok" THEN "remove" ELSE "end"
    /\ saveRes' = IF res = "ok" THEN saveRes ELSE "ok"
    /\ UNCHANGED <<owner, mRunning, keys, clicks, scrolls, toLog, nCycles>>
    /\ UNCHANGED inputVars
    /\ MonOnly

\* remove_file returns, and the function returns Ok(()).
MonRemove ==
    /\ mPc = "remove"
    /\ mPc' = "end"
    /\ saveRes' = "ok"
    /\ UNCHANGED <<owner, mRunning, keys, clicks, scrolls, toLog, nCycles>>
    /\ UNCHANGED inputVars
    /\ MonOnly

\* Mutant: the guards of the loop body are leaked instead of dropped.
MonEndPassKeepsGuards ==
    /\ mPc = "end"
    /\ toLog' = 0
    /\ nCycles' = nCycles + 1
    /\ saveRes' = "none"
    /\ mPc' = "check"
    /\ UNCHANGED <<owner, mRunning, keys, clicks, scrolls>>
    /\ UNCHANGED inputVars
    /\ MonOnly

\* End of the loop body: buffer, clicks and scrolls go out of scope.
MonEndPass ==
    /\ mPc = "end"
    /\ owner' = [l \in Locks |-> IF owner[l] = "monitor" THEN "none" ELSE owner[l]]
    /\ toLog' = 0
    /\ nCycles' = nCycles + 1
    /\ saveRes' = "none"
    /\ mPc' = "check"
    /\ UNCHANGED <<mRunning, keys, clicks, scrolls>>
    /\ UNCHANGED inputVars
    /\ MonOnly

MonNext ==
    \/ MonStart
    \/ MonStop
    \/ \E e \in EventTypes : InputEvent(e)
    \/ InputCount
    \/ MonCheck
    \/ \E changed \in BOOLEAN : MonSleep(changed)
    \/ MonTakeKeys
    \/ MonTakeClicks
    \/ MonTakeScrolls
    \/ MonLockMeta
    \/ \E res \in Outcomes : MonMkdir(res)
    \/ \E res \in Outcomes : MonWrite(res)
    \/ \E res \in Outcomes : MonUpload(res)
    \/ MonRemove
    \/ MonEndPass

(***************************************************************************)
(* PART 6.  run_video_recorder of video_service.rs: the service loop that  *)
(* runs one recording session of Recorder::record after another.           *)
(***************************************************************************)
\* Recordings one run of the loop may begin.
MaxSessions == 1

RecIdle ==
    /\ vrPc = "off"
    /\ vrRunning = FALSE
    /\ recording_count = 0
    /\ handed = 0
    /\ stopMid = FALSE

\* start_video_recording_service has set the flag and spawned the thread.
RecInit ==
    /\ vrPc = "top"
    /\ vrRunning = TRUE
    /\ recording_count = 0
    /\ handed = 0
    /\ stopMid = FALSE

\* Mutant: the stop command also ends the session in progress.
RecStopAborts ==
    /\ vrPc # "off"
    /\ vrRunning
    /\ vrRunning' = FALSE
    /\ stopMid' = (vrPc = "session" /\ frames_written \in 1..(TotalFrames - 1))
    /\ syPc' = IF vrPc = "session" /\ ~ReceiversDropped THEN "failed" ELSE syPc
    /\ UNCHANGED <<vrPc, recording_count, handed>>
    /\ UNCHANGED <<has_audio, stop_signal, vChan, aChan, vProd, frame_num,
                   video_timestamp, aProd, formatSent, audio_timestamp,
                   packet_count, video_ts, frames_written, container, aDropped>>
    /\ RecOnly

\* stop_video_recording_service: lock the flag and clear it.
RecStop ==
    /\ vrPc # "off"
    /\ vrRunning
    /\ vrRunning' = FALSE
    /\ stopMid' = (vrPc = "session" /\ frames_written \in 1..(TotalFrames - 1))
    /\ UNCHANGED <<vrPc, recording_count, handed>>
    /\ UNCHANGED syncVars
    /\ RecOnly

\* Top of the loop: the flag is read; the loop breaks if it is clear and
\* counts the next recording otherwise.
RecTop ==
    /\ vrPc = "top"
    /\ vrRunning => recording_count < MaxSessions
    /\ IF vrRunning
       THEN /\ vrPc' = "begin"
            /\ recording_count' = recording_count + 1
       ELSE /\ vrPc' = "exited"
            /\ UNCHANGED recording_count
    /\ UNCHANGED <<vrRunning, handed, stopMid>>
    /\ UNCHANGED syncVars
    /\ RecOnly

\* create_dir_all of today's folder and Recorder::new.  On success record()
\* is entered and runs up to the spawn of its audio thread; on failure the
\* loop sleeps 30 s and continues.
RecBegin(res) ==
    /\ vrPc = "begin"
    /\ IF res = "ok"
       THEN /\ vrPc' = "session"
            /\ syPc' = "format"
            /\ aProd' = "init"
            /\ UNCHANGED <<has_audio, stop_signal, vChan, aChan, vProd,
                           frame_num, video_timestamp, formatSent,
                           audio_timestamp, packet_count, video_ts,
                           frames_written, container, aDropped>>
       ELSE /\ vrPc' = "top"
            /\ UNCHANGED syncVars
    /\ UNCHANGED <<vrRunning, recording_count, handed, stopMid>>
    /\ RecOnly

\* record() has returned.  Ok: the file is handed to
\* handle_video_upload_async and the next iteration starts at once.  Err:
\* the file is removed and the loop sleeps 30 s.  The session's channels and
\* stop signal are gone with it.
RecReturn ==
    /\ vrPc = "session"
    /\ ReceiversDropped
    /\ handed' = IF syPc = "done" THEN handed + 1 ELSE handed
    /\ vrPc' = "top"
    /\ syPc' = "idle"
    /\ has_audio' = FALSE
    /\ stop_signal' = FALSE
    /\ vChan' = <<>>
    /\ aChan' = <<>>
    /\ vProd' = "off"
    /\ frame_num' = 0
    /\ video_timestamp' = 0
    /\ aProd' = "off"
    /\ formatSent' = FALSE
    /\ audio_timestamp' = 0
    /\ packet_count' = 0
    /\ video_ts' = 0
    /\ frames_written' = 0
    /\ container' = <<>>
    /\ aDropped' = {}
    /\ UNCHANGED <<vrRunning, recording_count, stopMid>>
    /\ RecOnly

RecNext ==
    \/ RecStop
    \/ RecTop
    \/ \E res \in Outcomes : RecBegin(res)
    \/ RecReturn
    \/ SyncNext

(***************************************************************************)
(* Specifications.                                                         *)
(***************************************************************************)
SyncBoot == SyncInit /\ StoreIdle /\ SegIdle /\ LifeIdle /\ MonIdle /\ RecIdle

SpecSync == SyncBoot /\ [][SyncNext]_vars

\* Scheduling of the threads of a recording session: each thread that can
\* take a step of its own eventually takes it.  Whether the audio device
\* delivers a packet, and whether a call fails, is up to the environment.
SyncFair ==
    /\ WF_vars(AudioStart)
    /\ WF_vars(AudioStop)
    /\ WF_vars(VideoSend)
    /\ WF_vars(FormatWait)
    /\ WF_vars(RecvVideo \/ DrainAudio \/ WriteVideo)

SpecSyncFair == SyncBoot /\ [][SyncNext]_vars /\ SyncFair

RecBoot == RecInit /\ StoreIdle /\ SyncIdle /\ SegIdle /\ LifeIdle /\ MonIdle

\* The loop thread and the threads of its session are scheduled; failures
\* and the stop command are up to the environment.
RecFair ==
    /\ SyncFair
    /\ WF_vars(RecTop)
    /\ WF_vars(RecBegin("ok"))
    /\ WF_vars(RecReturn)

SpecRec == RecBoot /\ [][RecNext]_vars /\ RecFair

SegBoot == SegInit /\ StoreIdle /\ SyncIdle /\ LifeIdle /\ MonIdle /\ RecIdle

SpecSeg == SegBoot /\ [][SegNext]_vars

LifeBoot == LifeInit /\ StoreIdle /\ SyncIdle /\ SegIdle /\ MonIdle /\ RecIdle

SpecLife == LifeBoot /\ [][LifeNext]_vars

\* The lifecycle under a fair scheduler: a command that was entered runs to
\* its return, a thread in its setup leaves it, a polling thread whose flag
\* is clear comes round to its test, a recorder whose stop flag is set
\* returns from run_blocking and does its cleanup.  Nothing makes listen()
\* fail, and nothing makes a caller enter a command.
CommandStep(c) ==
    \/ SpawnThreads(c)
    \/ \E res \in Outcomes : ResolveDir(c, res)
    \/ SetHandle(c)
    \/ SpawnRecorder(c)
    \/ TakeHandle(c)

RecorderObservesStop(t) ==
    /\ RecorderReturn(t)
    /\ thr[t].flag

LifeFair ==
    /\ \A c \in Callers : WF_vars(CommandStep(c))
    /\ \A t \in ThreadIds :
           /\ WF_vars(SetupDone(t) \/ SetupFail(t))
           /\ WF_vars(ExitOnStop(t))
           /\ WF_vars(RecorderObservesStop(t))
           /\ WF_vars(RecorderResetRunning(t))
           /\ WF_vars(RecorderClearHandle(t))

SpecLifeFair == LifeBoot /\ [][LifeNext]_vars /\ LifeFair

MonBoot == MonInit /\ StoreIdle /\ SyncIdle /\ SegIdle /\ LifeIdle /\ RecIdle

SpecMon == MonBoot /\ [][MonNext]_vars

\* The activity service under a fair scheduler, with every file operation
\* and every upload returning: the monitor thread takes each step of its
\* loop, and a callback that waits for a lock gets it when the lock is free
\* again and again (the monitor sleeps 30 s between two passes).
MonFair ==
    /\ WF_vars(MonCheck)
    /\ WF_vars(\E changed \in BOOLEAN : MonSleep(changed))
    /\ WF_vars(MonTakeKeys)
    /\ WF_vars(MonTakeClicks)
    /\ WF_vars(MonTakeScrolls)
    /\ WF_vars(MonLockMeta)
    /\ WF_vars(\E res \in Outcomes : MonMkdir(res))
    /\ WF_vars(\E res \in Outcomes : MonWrite(res))
    /\ WF_vars(\E res \in Outcomes : MonUpload(res))
    /\ WF_vars(MonRemove)
    /\ WF_vars(MonEndPass)
    /\ SF_vars(InputCount)

SpecMonFair == MonBoot /\ [][MonNext]_vars /\ MonFair

Init == StoreInit /\ SyncIdle /\ SegIdle /\ LifeIdle /\ MonIdle /\ RecIdle

Next == StoreNext

Spec == Init /\ [][Next]_vars

\* The retry-convergence scenario of the testable properties: N artifacts in
\* the pending directory, an uploader that fails its first K attempts and then
\* always succeeds, no capture, and sweeps run one after another.
ConvInit ==
    /\ StoreStart
    /\ failK \in 0..MaxK
    /\ failLeft = failK
    /\ SyncIdle
    /\ SegIdle
    /\ LifeIdle
    /\ MonIdle /\ RecIdle

ConvNext ==
    \/ SweepStart("retry")
    \/ \E f \in Files : SweepAttempt("retry", f)
    \/ SweepFinish("retry")
    \/ SweepEnd("retry")

SpecConv == ConvInit /\ [][ConvNext]_vars

\* The uploader recovers: from now on every attempt on a readable file succeeds.
NetRecover ==
    /\ ~netUp
    /\ netUp' = TRUE
    /\ UNCHANGED <<kind, fstate, immPc, immRes, swPc, swList, swSeen, swFile,
                   swRes, swDeleted, swErrors, failK, failLeft, sweepsDone,
                   prevCleared, delFailed, persisted, confirmed, badDel,
                   delivered>>
    /\ StoreOnly

\* The retry thread's removal of the file it has just uploaded succeeds.
RetryRemoves == SweepFinish("retry") /\ fstate' # fstate

\* Delivery by the sweeps of a running service: the retry thread keeps
\* sweeping (its loop sleeps and sweeps again as long as the flag is set), the
\* launch sweep runs to its end, the uploader eventually recovers, and a
\* removal that is tried again and again eventually succeeds.
DeliverInit ==
    /\ StoreInit
    /\ SyncIdle
    /\ SegIdle
    /\ LifeIdle
    /\ MonIdle /\ RecIdle

DeliverNext == StoreNext \/ NetRecover

DeliverFair ==
    /\ WF_vars(NetRecover)
    /\ \A p \in Sweepers :
          /\ WF_vars(SweepStart(p))
          /\ WF_vars(\E f \in Files : SweepAttempt(p, f))
          /\ WF_vars(SweepFinish(p))
          /\ WF_vars(SweepEnd(p))
    /\ SF_vars(RetryRemoves)

SpecDeliver == DeliverInit /\ [][DeliverNext]_vars /\ DeliverFair

(***************************************************************************)
(* Claims about the pending store and the delivery/retry engine.           *)
(***************************************************************************)

\* C1: in the immediate attempt and in every retry sweep, of every kind, a
\* pending file is removed only after an upload attempt on that same file by
\* that same path returned success; a failed attempt leaves the file in place.
C1_DeleteOnlyAfterSuccess ==
    /\ badDel = {}
    /\ \A f \in Files : fstate[f] = "gone" => f \in confirmed

\* C1 witness: one file has been removed after its upload while a sweep's
\* attempt on another file has just failed and that file is still in the store.
C1_Witness ==
    /\ \E f \in Files : fstate[f] = "gone"
    /\ \E p \in Sweepers : /\ swPc[p] = "tried" /\ swRes[p] = "fail"
                           /\ Present(swFile[p]) /\ swFile[p] \notin confirmed

\* C2: no scan lists, and no path uploads or removes, a file whose persist step
\* has not completed.
C2_NoAttemptBeforePersist ==
    /\ \A p \in Sweepers : swList[p] \subseteq persisted
    /\ \A p \in Sweepers : swFile[p] # 0 => swFile[p] \in persisted
    /\ confirmed \subseteq persisted
    /\ \A f \in Files : fstate[f] = "gone" => f \in persisted

\* C8 as stated: once K+1 sweeps have completed the pending count is 0, and no
\* sweep has removed an artifact whose upload failed.
C8_ConvergesWithinKPlus1 ==
    /\ (Scenario /\ sweepsDone >= failK + 1) => Pending = {}
    /\ badDel = {}

\* C8 as amended: once K+1 sweeps have completed, the only artifacts still
\* pending are those uploaded successfully whose removal failed (none, when
\* every removal succeeds), and no sweep has removed an artifact whose upload
\* failed.
C8_ConvergesUnlessRemoveFails ==
    /\ (Scenario /\ sweepsDone >= failK + 1) =>
           (Pending \subseteq (delFailed \cap confirmed))
    /\ (Scenario /\ sweepsDone >= failK + 1 /\ delFailed = {}) => Pending = {}
    /\ badDel = {}

\* C8 witness: two artifacts, K >= 1 failures, and the store is empty exactly
\* when the (K+1)-th sweep has completed.
C8_Witness ==
    /\ Scenario /\ failK >= 1 /\ sweepsDone = failK + 1
    /\ Cardinality(confirmed) >= 2 /\ Pending = {} /\ delFailed = {}

C10_PresentIffUndelivered ==
    \A f \in Files : Present(f) <=> (f \in persisted /\ f \notin confirmed)

\* C10 as amended: every artifact that has been persisted and has no confirmed
\* successful upload is present in the store.
C10_UndeliveredIsPresent ==
    \A f \in Files : (f \in persisted /\ f \notin confirmed) => Present(f)

\* C10 witness: an artifact whose immediate attempt failed and has finished is
\* still in the store, while another one was uploaded and removed.
C10_Witness ==
    \E f, g \in Files :
        /\ f \in persisted /\ f \notin confirmed /\ immPc[f] = "done" /\ Present(f)
        /\ g \in confirmed /\ fstate[g] = "gone"

(***************************************************************************)
(* Claims about the synchronizer loop of Recorder::record.                 *)
(***************************************************************************)

\* C3: every audio chunk taken from the audio channel is written to the audio
\* track exactly once; a chunk stamped at or after the current frame is not
\* consumed, so no chunk is received without being written.
C3_TakenChunksAreWritten ==
    /\ aDropped = {}
    /\ \A i, j \in SamplesOf("audio") : container[i][2] = container[j][2] => i = j

\* C7: the timestamps of the video samples in the container are strictly
\* increasing, and every audio sample written before a video sample has a
\* timestamp strictly less than that video sample's.
C7_Monotonic ==
    /\ \A i, j \in SamplesOf("video") : i < j => container[i][2] < container[j][2]
    /\ \A i \in SamplesOf("audio"), j \in SamplesOf("video") :
           i < j => container[i][2] < container[j][2]

\* C7 witness: a completed session whose container holds every frame and an
\* audio sample written between two frames.
C7_Witness ==
    /\ syPc = "done" /\ frames_written = TotalFrames
    /\ \E i \in SamplesOf("audio") : \E j, k \in SamplesOf("video") : j < i /\ i < k

(***************************************************************************)
(* Claims about the start/stop lifecycle.                                  *)
(***************************************************************************)

\* A step in which a start command is entered.
StartEntered == nCalls' = nCalls + 1 /\ lastOp' = "start"

\* A start command entered while the running flag is set changes nothing of
\* the service (flag, stop handle, threads, callers' positions) and returns
\* success at once.
StartWhileRunningIsNoOp ==
    (StartEntered /\ is_running) =>
        /\ UNCHANGED <<is_running, stop_handle, thr, callPc, callThr>>
        /\ callRet'[lastCaller'] = "ok"

\* No thread has ended and no command has failed so far.
NothingEnded ==
    /\ \A t \in DOMAIN thr : thr[t].pc \in {"new", "setup", "loop", "run"}
    /\ ~cmdFailed

\* Every thread of the set has been spawned and has finished its setup.
SetComplete ==
    /\ \A c \in Callers : callPc[c] = "idle"
    /\ \A t \in DOMAIN thr : thr[t].pc \in {"loop", "run"}

\* While no stop command has been entered there is never more than one live
\* thread of any role, and once the started set is complete, with no thread
\* ended, it is exactly one thread of each role of the service.
OneSetOfThreads ==
    nStops = 0 =>
        /\ \A r \in Roles(svc) : Cardinality(Live(r)) <= 1
        /\ (nCalls >= 1 /\ SetComplete /\ NothingEnded) =>
               \A r \in Roles(svc) : Cardinality(Live(r)) = 1

\* C4: for each of the four services, start commands issued with no stop in
\* between, one after another or concurrently, leave one set of the service's
\* threads running: a start that finds the running flag set changes no
\* state, spawns no thread and returns success.
C4_StartTwiceOneSet == []OneSetOfThreads /\ [][StartWhileRunningIsNoOp]_vars

\* Two start commands have returned success with no stop, nothing has ended,
\* and exactly one complete set of threads is live.
C4_Witness ==
    /\ nCalls = 2
    /\ nStops = 0
    /\ lastOp = "start"
    /\ SetComplete
    /\ NothingEnded
    /\ \A c \in Callers : callRet[c] = "ok"
    /\ \A r \in Roles(svc) : Cardinality(Live(r)) = 1
    /\ Len(thr) = Cardinality(Roles(svc))

(***************************************************************************)
(* Claims about the segment lifecycle of Recorder::run_blocking.           *)
(***************************************************************************)

\* C5: every segment that run_blocking finalizes is deleted if fewer than
\* expected_frames frames were written to it and retained if at least
\* expected_frames were written.
C5_FinalizedCheckedByFrameCount ==
    \A i \in Finalized :
        segments[i].fate = (IF segments[i].frames < ExpectedFrames
                            THEN "deleted" ELSE "retained")

\* C6: a segment finalized by a rotation with a frame counter below
\* expected_frames has its file deleted.
C6_RotationDeletesShortSegment ==
    \A i \in Finalized :
        (segments[i].via = "rotation" /\ segments[i].frames < ExpectedFrames)
            => segments[i].fate = "deleted"

(***************************************************************************)
(* Claims about delivery by the background sweep.                          *)
(***************************************************************************)

\* C11: while the screenshot or activity service stays running and the
\* uploader eventually succeeds on every attempt, every persisted artifact is
\* eventually uploaded successfully (its whole payload) and removed from the
\* pending store.
C11_PersistedEventuallyDelivered ==
    \A f \in Files :
        (kind \in {"activity", "screenshot"} /\ f \in persisted)
            ~> (f \in delivered /\ fstate[f] = "gone")

\* An upload attempt on f is being made or its capture path has made one.
Attempted(f) ==
    \/ \E p \in Sweepers : swFile[p] = f
    \/ immPc[f] \in {"tried", "done"}
    \/ f \in confirmed

\* C12: every video segment the recorder of start_video_recording retains on
\* disk is eventually attempted for upload, by an immediate attempt or by a
\* sweep of retry_all_pending_videos, and is removed once an attempt has
\* succeeded.
C12_SegmentEventuallyAttempted ==
    \A f \in Files :
        /\ (kind = "video_main" /\ f \in persisted) ~> Attempted(f)
        /\ (kind = "video_main" /\ f \in confirmed) ~> (fstate[f] = "gone")


(***************************************************************************)
(* Claims about stopping and failing services.                             *)
(***************************************************************************)

\* The stop entered last found the service stopped and has returned.
IdleStopReturned ==
    /\ lastOp = "stop"
    /\ stopFound = "stopped"
    /\ callPc[lastCaller] = "idle"

\* A step of a stop command that was entered with the service stopped: its
\* entry, or a later step of its caller.
IdleStopStep ==
    \/ /\ Stopped
       /\ nStops' = nStops + 1
    \/ /\ lastOp = "stop"
       /\ stopFound = "stopped"
       /\ callPc[lastCaller] # "idle"
       /\ callPc'[lastCaller] # callPc[lastCaller]

\* C13: a stop command entered while the service is not running (never
\* started, or stopped by an earlier stop that has returned, whether or not
\* its threads have exited) returns success and changes neither the running
\* flag, the stop handle nor any thread; in particular the second of two
\* successive stop_video_recording calls does not return an error.
C13_StopWhenStoppedIsNoOp ==
    /\ [](IdleStopReturned => callRet[lastCaller] = "ok")
    /\ [][IdleStopStep => UNCHANGED <<is_running, stop_handle, thr>>]_vars

\* Every thread a start command of the service has spawned has exited.
AllThreadsExited == \A t \in DOMAIN thr : thr[t].pc \in {"exited", "failed"}

\* The command entered last is a stop of the running service, and it has
\* returned.
StopIsLast ==
    /\ lastOp = "stop"
    /\ stopFound = "running"
    /\ callPc[lastCaller] = "idle"

\* C14: after a stop of a running service that no start follows, every thread
\* the service's start spawned (capture loop, input monitor, main monitor,
\* retry thread, recorder thread) eventually exits.
C14_StopEndsEveryThread ==
    StopIsLast ~> (lastOp = "start" \/ AllThreadsExited)

\* A setup failure has ended the service: a thread returned from its setup
\* with an error, or the start entered last returned the error of resolving
\* the app data directory; no command is being executed and no thread of the
\* service is left.
EndedBySetupFailure ==
    /\ \/ \E t \in DOMAIN thr : thr[t].pc = "failed"
       \/ /\ lastOp = "start"
          /\ callRet[lastCaller] = "err"
    /\ \A c \in Callers : callPc[c] = "idle"
    /\ AllThreadsExited

\* C15: after an unrecoverable setup failure that followed the setting of the
\* running flag, the flag is false again, so a start entered after the
\* failure is not treated as already running and sets the service up anew.
C15_SetupFailureResetsFlag ==
    /\ [](EndedBySetupFailure => ~is_running)
    /\ [][(StartEntered /\ EndedBySetupFailure) => callPc'[lastCaller'] # "idle"]_vars

\* C16: no thread holds a lock (running flag, keystroke buffer, click
\* counter, scroll counter, meta_lock) while it is inside blocking file I/O or
\* the network upload.
C16_NoLockAcrossBlockingCall ==
    Blocking(mPc) => HeldBy("monitor") = {}

(***************************************************************************)
(* Claims about concurrent participants and failed removals.               *)
(***************************************************************************)

\* A sweeper's attempt on a file that is no longer there fails, its arm
\* removes nothing and skips none of the files the sweep still has to attempt,
\* and a sweep ends only when it has no file left.
SweeperToleratesMissing(p) ==
    /\ (swPc[p] = "scan" /\ swPc'[p] = "tried" /\ ~Present(swFile'[p]))
          => swRes'[p] = "fail"
    /\ (swPc[p] = "tried" /\ swPc'[p] # "tried" /\ ~Present(swFile[p]))
          => /\ swPc'[p] = "scan"
             /\ fstate' = fstate
             /\ SweepCandidates(p)' = SweepCandidates(p)
    /\ (swPc[p] = "scan" /\ swPc'[p] \in {"idle", "done"})
          => SweepCandidates(p) = {}

\* The capture path's immediate attempt on a file that is no longer there
\* fails and removes nothing.
ImmediateToleratesMissing(f) ==
    /\ (immPc[f] = "saved" /\ immPc'[f] = "tried" /\ ~Present(f))
          => immRes'[f] = "fail"
    /\ (immPc[f] = "tried" /\ immPc'[f] = "done" /\ ~Present(f))
          => fstate' = fstate

\* C17: with two sweeps, or a sweep and the immediate attempt, working on the
\* same pending store in any interleaving, a file is removed only after some
\* upload attempt on it returned success, and a participant that finds a file
\* already removed by the other takes the failure arm and goes on to all its
\* remaining files.
C17_ConcurrentParticipantsSafe ==
    /\ [](\A f \in Files : ~Present(f) /\ fstate[f] # "absent" => f \in confirmed)
    /\ [][/\ \A p \in Sweepers : SweeperToleratesMissing(p)
          /\ \A f \in Files : ImmediateToleratesMissing(f)]_vars

\* C17 witness: a sweeper's attempt has failed on a file that another
\* participant uploaded and removed, while the other sweeper is in the
\* middle of its own sweep and this one has further files to attempt.
C17_Witness ==
    \E p \in Sweepers, f \in Files :
        /\ swPc[p] = "tried"
        /\ swFile[p] = f
        /\ swRes[p] = "fail"
        /\ fstate[f] = "gone"
        /\ f \in confirmed
        /\ SweepCandidates(p) # {}
        /\ \E q \in Sweepers \ {p} : swPc[q] \in {"scan", "tried"}

\* C18: every artifact file of every kind lies directly in a date directory
\* that is a direct child of the kind's pending root, so the listing of the
\* kind's scanner returns every file that is in the store.
C18_ArtifactsDirectlyInDateDir ==
    \A f \in Files :
        Present(f) => /\ InDateDir(ArtifactDir(kind))
                      /\ f \in ScanListing

(***************************************************************************)
(* Claims about the order of samples in the container.                     *)
(***************************************************************************)

\* C19: every audio chunk in the container was written before every video
\* frame whose timestamp is later than the chunk's, whatever the order and
\* timing in which chunks and frames arrive on the two channels.
C19_AudioBeforeLaterVideo ==
    \A i \in SamplesOf("audio"), j \in SamplesOf("video") :
        container[i][2] < container[j][2] => i < j

\* A sweeper's Ok arm in which remove_file fails: the upload stays counted as
\* a success, the file stays, and the sweep goes on with what it had left.
SweepSurvivesFailedRemove(p) ==
    (/\ swPc[p] = "tried" /\ swRes[p] = "ok" /\ swPc'[p] # "tried"
     /\ Present(swFile[p]) /\ fstate'[swFile[p]] # "gone")
        => /\ swFile[p] \in confirmed'
           /\ fstate' = fstate
           /\ swPc'[p] = "scan"
           /\ SweepCandidates(p)' = SweepCandidates(p)

\* The same for the capture path's immediate attempt.
CaptureSurvivesFailedRemove(f) ==
    (/\ immPc[f] = "tried" /\ immRes[f] = "ok" /\ immPc'[f] # "tried"
     /\ Present(f) /\ fstate'[f] # "gone")
        => /\ f \in confirmed'
           /\ fstate' = fstate
           /\ immPc'[f] = "done"

\* A sweep that starts takes up every file that is in the store although its
\* upload has succeeded, keeps it until it attempts it or the file is removed,
\* and does not end before.
SweepRetriesUploaded(p) ==
    /\ (swPc[p] = "idle" /\ swPc'[p] = "scan")
          => \A f \in confirmed : Present(f) => f \in SweepCandidates(p)'
    /\ (swPc[p] \in {"scan", "tried"} /\ swPc'[p] \in {"scan", "tried"})
          => \A f \in SweepCandidates(p) \ SweepCandidates(p)' :
                 swFile'[p] = f \/ ~Present(f)'
    /\ (swPc[p] = "scan" /\ swPc'[p] \notin {"scan", "tried"})
          => SweepCandidates(p) = {}

\* C20: a failure of remove_file after a successful upload is not a delivery
\* failure: the upload counts as success, the sweep or the capture cycle goes
\* on, the file stays in the pending store and the next sweep uploads it
\* again.
C20_FailedRemoveKeepsAndRetries ==
    [][/\ \A p \in Sweepers : SweepSurvivesFailedRemove(p) /\ SweepRetriesUploaded(p)
       /\ \A f \in Files : CaptureSurvivesFailedRemove(f)]_vars

\* C20 witness: a file was uploaded successfully, its removal failed, and a
\* sweep has attempted it again; no one else is working on the file.
C20_Witness ==
    \E p \in Sweepers, f \in Files :
        /\ swPc[p] = "tried"
        /\ swFile[p] = f
        /\ swRes[p] = "fail"
        /\ f \in confirmed
        /\ Present(f)
        /\ immPc[f] = "done"
        /\ \A q \in Sweepers \ {p} : swFile[q] # f

(***************************************************************************)
(* Claims about failed uploads.                                            *)
(***************************************************************************)

\* Every way an upload can fail gives the caller the same result.
FailuresAreUniform ==
    /\ \A sent \in SendFailures : try_upload_file(TRUE, sent) = "fail"
    /\ \A sent \in SendOutcomes : try_upload_file(FALSE, sent) = "fail"

\* A sweeper attempts no file twice in one sweep; its failure arm changes no
\* file and leaves the sweep all the files it had left; the sweep ends only
\* when it has attempted every file it found.
SweepAbsorbsFailure(p) ==
    /\ (swPc[p] = "scan" /\ swPc'[p] = "tried") => swFile'[p] \notin swSeen[p]
    /\ (swPc[p] = "tried" /\ swRes[p] = "fail" /\ swPc'[p] # "tried")
          => /\ fstate' = fstate
             /\ swPc'[p] = "scan"
             /\ SweepCandidates(p)' = SweepCandidates(p)
    /\ (swPc[p] = "scan" /\ swPc'[p] \notin {"scan", "tried"})
          => /\ SweepCandidates(p) = {}
             /\ swList[p] \subseteq swSeen[p]

\* The failure arm of the capture path's immediate attempt changes no file.
CaptureAbsorbsFailure(f) ==
    (immPc[f] = "tried" /\ immRes[f] = "fail" /\ immPc'[f] # "tried")
        => /\ fstate' = fstate
           /\ immPc'[f] = "done"

\* C21: a non-success status, a timeout and a connection error are all the
\* same failure to the caller: the file is left in place, the sweep or the
\* capture cycle goes on, every other file the sweep found is still
\* attempted, and no file is attempted twice in one sweep.
C21_FailedUploadLeavesFile ==
    /\ []FailuresAreUniform
    /\ [][/\ \A p \in Sweepers : SweepAbsorbsFailure(p)
          /\ \A f \in Files : CaptureAbsorbsFailure(f)]_vars

\* C21 witness: in one sweep the attempt on a file has failed, the file is
\* still in the store with no upload of it ever confirmed, and the sweep has
\* gone on to attempt another file.
C21_Witness ==
    \E p \in Sweepers, f, g \in Files :
        /\ f # g
        /\ swPc[p] = "tried"
        /\ swFile[p] = g
        /\ f \in swSeen[p]
        /\ Present(f)
        /\ f \notin confirmed

(***************************************************************************)
(* Claims about the frame schedule and the segments of run_blocking.       *)
(***************************************************************************)

\* A step in which run_blocking captures and encodes a frame.
CaptureStep ==
    /\ AtPacing
    /\ lag >= 0
    /\ rbPc' = "loop"
    /\ <<lag, segAge, frames>>' # <<lag, segAge, frames>>

\* C22: the loop never captures a frame while it is behind its schedule: a
\* capture that overran is followed by a wait, not by captures issued one
\* after the other until the schedule is caught up.
C22_NoBackToBackCapture ==
    [][CaptureStep => lag = 0]_vars

(***************************************************************************)
(* Claims about the producers of Recorder::record.                         *)
(***************************************************************************)

\* The timestamp the claim gives the n-th video sample, n counted from 0.
NthVideoTimestamp(n) == n * (TicksPerSecond \div FrameRate)

\* The samples waiting on the video channel are the last ones sent.
VideoChannelStamped ==
    \A i \in DOMAIN vChan :
        vChan[i] = NthVideoTimestamp(frame_num - Len(vChan) + i - 1)

\* The video samples of the container are the first ones sent, in order.
VideoContainerStamped ==
    \A i \in SamplesOf("video") :
        container[i][2] =
            NthVideoTimestamp(Cardinality({j \in SamplesOf("video") : j < i}))

\* The audio stream starts at 0 and never goes back.
AudioStreamOrdered ==
    /\ packet_count = 0 => audio_timestamp = 0
    /\ \A i \in DOMAIN aChan : aChan[i] >= 0 /\ aChan[i] <= audio_timestamp
    /\ \A i, j \in DOMAIN aChan : i < j => aChan[i] <= aChan[j]
    /\ \A i, j \in SamplesOf("audio") : i < j => container[i][2] <= container[j][2]

\* A send of either producer carries the sender's running timestamp, which
\* for video is the frame's index times the step, and the running timestamps
\* never decrease.
SendsStamped ==
    /\ Len(vChan') > Len(vChan)
          => vChan'[Len(vChan')] = NthVideoTimestamp(frame_num)
    /\ Len(aChan') > Len(aChan)
          => /\ aChan'[Len(aChan')] = audio_timestamp
             /\ packet_count = 0 => aChan'[Len(aChan')] = 0
    /\ audio_timestamp' >= audio_timestamp
    /\ video_timestamp' >= video_timestamp

\* C23: the n-th video sample sent in a session (n from 0) carries the
\* timestamp n * (10,000,000 / fps), whatever the time of its capture, and
\* the timestamps of each stream start at 0 and never decrease.
C23_TimestampsFromIndex ==
    /\ [](VideoChannelStamped /\ VideoContainerStamped /\ AudioStreamOrdered)
    /\ [][SendsStamped]_vars

\* C23 witness: every frame of the session has been sent and written, and two
\* audio chunks with different timestamps are in the container.
C23_Witness ==
    /\ frame_num = TotalFrames
    /\ frames_written = TotalFrames
    /\ \E i, j \in SamplesOf("audio") : container[i][2] < container[j][2]

\* Both producer threads of the session have returned.
ProducersEnded == vProd = "ended" /\ aProd = "ended"

\* C24: once record() has returned, normally or with an error, both
\* run_video_capture and run_audio_capture eventually terminate.
C24_ProducersEndAfterSession == ReceiversDropped ~> ProducersEnded

\* The session runs its encoding loop without an audio stream.
VideoOnly == syPc \in {"recv", "write", "done"} /\ ~has_audio

\* A session without an audio stream is never in the drain loop and has
\* written no audio sample.
VideoOnlyWritesNoAudio ==
    ~has_audio => syPc # "drain" /\ SamplesOf("audio") = {}

\* A session without an audio stream takes nothing off the audio channel.
VideoOnlyLeavesChannel == ~has_audio => Len(aChan') >= Len(aChan)

\* A session that has returned normally has written its budget of frames.
DoneWroteBudget == syPc = "done" => frames_written = TotalFrames

\* C25: a session that got no audio format (timeout or disconnected format
\* channel) runs video-only: it writes no audio sample, never receives from
\* the audio channel, and, unless a Media Foundation call fails, writes all
\* TotalFrames video frames and is finalized.
C25_VideoOnlySession ==
    /\ [](VideoOnlyWritesNoAudio /\ DoneWroteBudget)
    /\ [][VideoOnlyLeavesChannel]_vars
    /\ []~(syPc = "failed") => (VideoOnly ~> (syPc = "done" /\ ~has_audio))

\* A video-only session is finalized with its frames while the audio thread
\* has sent chunks that nobody received.
C25_Witness ==
    /\ syPc = "done"
    /\ ~has_audio
    /\ Len(SelectSeq(container, LAMBDA e : e[1] = "video")) = TotalFrames
    /\ aChan # <<>>

\* run_audio_capture is in its capture loop with nothing telling it to end:
\* the stop signal is clear and the receiver of its channel exists.
AudioLoopWanted == aProd = "run" /\ ~stop_signal /\ ~ReceiversDropped

\* C26: a failed read of the audio device is skipped for that iteration only:
\* the audio producer stays in its loop as long as nothing tells it to end.
C26_AudioReadErrorSkipped == [][AudioLoopWanted => aProd' = "run"]_vars

\* save_and_try_upload has returned an error to run_main_monitor: one of
\* create_dir_all, File::create, write_all, sync_all failed.
PersistFailed == mPc = "end" /\ saveRes = "err"

\* The buffer and both counters hold nothing of the batch.
BuffersReset == keys = 0 /\ clicks = 0 /\ scrolls = 0

\* No upload is attempted, and no file removed, in a pass whose save failed.
NoUploadAfterPersistFailure ==
    /\ saveRes = "err" => mPc = "end"
    /\ mPc \in {"upload", "remove"} => saveRes = "none"

\* The monitor's step after the failure is the end of the loop body: the
\* batch is gone, nothing of it is back in the buffers, and the loop is at
\* its top again.
PersistFailureDropsBatch ==
    PersistFailed /\ mPc' # mPc =>
        mPc' = "check" /\ toLog' = 0 /\ BuffersReset' /\ mRunning' = mRunning

\* C27: when persisting an activity batch fails, the error is returned to
\* run_main_monitor, no upload is attempted, the batch is dropped with the
\* buffers and counters already reset, and the loop goes on to its next
\* cycle.
C27_PersistFailureDropsBatch ==
    /\ [](NoUploadAfterPersistFailure /\ (PersistFailed => BuffersReset))
    /\ [](PersistFailed => ENABLED MonEndPass)
    /\ [][PersistFailureDropsBatch]_vars

\* A batch with keystrokes, clicks and scrolls has just failed to persist.
C27_Witness == PersistFailed /\ toLog >= 3

\* The step is one of an immediate attempt or of a retry sweep.
UploaderStep ==
    \/ \E f \in Files : immPc[f] \in {"saved", "tried"} /\ immPc'[f] # immPc[f]
    \/ swPc' # swPc

\* No step changes the payload of an artifact whose persist has completed:
\* the file stays whole until it is removed.
PersistedStaysWhole(f) ==
    f \in persisted /\ fstate[f] = "complete" =>
        fstate'[f] \in {"complete", "gone"}

\* The only change an immediate attempt or a sweep makes to a file is its
\* removal, and only of a file whose upload has succeeded.
UploaderOnlyRemoves(f) ==
    UploaderStep /\ fstate'[f] # fstate[f] =>
        Present(f) /\ fstate'[f] = "gone" /\ f \in confirmed

\* C28: no artifact is mutated after creation: once persist has completed no
\* step of the immediate attempt or of a retry sweep changes the file; the
\* only change either makes to the pending store is removing a file after its
\* successful upload.
C28_ArtifactsImmutable ==
    [][\A f \in Files : PersistedStaysWhole(f) /\ UploaderOnlyRemoves(f)]_vars

\* A persisted artifact is still whole after its immediate attempt and a
\* sweeper's attempt have both failed on it.
C28_Witness ==
    \E f \in Files, p \in Sweepers :
        /\ f \in persisted
        /\ fstate[f] = "complete"
        /\ immPc[f] = "done"
        /\ f \in swSeen[p]
        /\ swPc[p] = "scan"
        /\ f \notin confirmed

\* The flag is clear while a session is in progress: the stop command came
\* after the loop's last test of the flag.
StoppedInSession == vrPc = "session" /\ ~vrRunning

\* The stop command clears the flag and touches nothing of the session or
\* of the loop's position.
StopOnlyClearsFlag ==
    vrRunning /\ ~vrRunning' =>
        UNCHANGED <<syncVars, vrPc, recording_count, handed>>

\* The loop leaves a session only when record() has returned; a session that
\* returned Ok has written its budget and is handed to the upload step,
\* whatever the flag says.
SessionRunsToItsEnd ==
    vrPc = "session" /\ vrPc' # "session" =>
        /\ ReceiversDropped
        /\ vrPc' = "top"
        /\ syPc = "done" =>
              frames_written = TotalFrames /\ handed' = handed + 1

\* The loop exits from its top and nowhere else.
ExitsOnlyAtTop == vrPc' = "exited" /\ vrPc # "exited" => vrPc = "top" /\ ~vrRunning

\* C29: a stop command during a recording session aborts nothing: the
\* session still writes all its frames, is finalized and handed to the
\* upload step (unless a Media Foundation call fails), and the loop of
\* run_video_recorder exits only at the top of its next iteration.
C29_StopLetsSessionFinish ==
    /\ [][StopOnlyClearsFlag /\ SessionRunsToItsEnd /\ ExitsOnlyAtTop]_vars
    /\ []~(syPc = "failed") =>
          (StoppedInSession ~>
              (StoppedInSession /\ syPc = "done" /\ frames_written = TotalFrames))
    /\ StoppedInSession ~> vrPc = "exited"

\* The service was stopped in the middle of a session, and the loop has
\* exited with that session handed over.
C29_Witness ==
    /\ vrPc = "exited"
    /\ stopMid
    /\ handed = recording_count
    /\ recording_count >= 1

\* The segments whose writer is open.
OpenSegments == {i \in Segments : segments[i].fate = "open"}

\* Inside the recording loop the writer of the current segment is open and
\* no other.
OneOpenWriter == rbPc \in {"loop", "pace"} => OpenSegments = {segIndex}

\* The loop is at its top with the segment duration elapsed.
RotationDue == rbPc = "loop" /\ ~stop /\ segAge >= SegmentTicks

\* The step replaces the writer of a running segment by a new one.
RotationStep == segIndex >= 1 /\ segIndex' = segIndex + 1

\* A rotation is taken only when it is due; it leaves the new writer as the
\* only open one, has called finalize on the old one, and restarts the frame
\* counter and the segment clock.
RotationOnlyWhenDue ==
    RotationStep =>
        /\ RotationDue
        /\ OpenSegments' = {segIndex'}
        /\ segments'[segIndex].via = "rotation"
        /\ segments'[segIndex].fate \in {"retained", "unfinalized"}
        /\ segments'[segIndex].frames = frames
        /\ frames' = 0
        /\ segAge' = 0

\* When a rotation is due the loop's step is the rotation, or the error
\* return of a failed create_new: no frame is captured first.
DueForcesRotation ==
    RotationDue /\ <<rbPc, frames, segAge, lag, segIndex>>' # <<rbPc, frames, segAge, lag, segIndex>> =>
        RotationStep \/ rbPc' = "err"

RecordingWanted == rbPc \in {"loop", "pace"} /\ ~stop

\* C31: a failure while creating or finalizing a segment writer abandons
\* that segment only: as long as no stop is requested the recording loop of
\* run_blocking goes on with a new segment.
C31_WriterFailureKeepsRecording ==
    [][RecordingWanted => rbPc' \in {"loop", "pace"}]_vars

\* A segment file that run_blocking has finalized and kept.
RetainedSegments == {i \in Segments : segments[i].fate = "retained"}

\* C32: every artifact lies in the date directory of the UTC day on which it
\* was persisted: a segment that start_video_recording's recorder finishes
\* after a midnight lies in the new day's directory.
C32_SegmentInDirOfItsDay ==
    \A i \in RetainedSegments : segments[i].dir = segments[i].day


(***************************************************************************)
(* Claims about the launch of the agent and the lifecycle of its threads.  *)
(***************************************************************************)

\* The launch sweep of main() is making an attempt on f, or f has left the
\* store.
LaunchHandled(f) == swFile["startup"] = f \/ fstate[f] = "gone"

\* The kinds whose pending root main() sweeps at launch.
LaunchKinds == {k \in Kinds : RunsSweep("startup", k)}

\* C33: every artifact the previous process run left in the store of a kind
\* that main() sweeps at launch is attempted by the launch sweep, unless
\* another thread has removed it before.
C33_LaunchSweepAttemptsLeftovers ==
    \A f \in Files :
        (kind \in LaunchKinds /\ fstate[f] = "complete"
            /\ swPc["startup"] = "idle")
          ~> LaunchHandled(f)


\* The services whose threads poll the running flag.
FlagPolled == {"screenshot", "activity", "video_service"}

\* C34: whatever start and stop commands have been executed, a flag-polled
\* service never has more than one live thread of any of its roles (capture
\* loop, input monitor, main monitor, retry thread).
C34_OneThreadPerRole ==
    svc \in FlagPolled => \A r \in Roles(svc) : Cardinality(Live(r)) <= 1


\* The recorder threads that are inside run_blocking.
ActiveRecorders ==
    {t \in DOMAIN thr : thr[t].role = "recorder" /\ thr[t].pc = "run"}

\* C35: for the recorder of start_video_recording, is_running is false only
\* when no recorder thread is active, and at most one recorder thread is
\* active at any time.
C35_FlagTracksOneRecorder ==
    svc = "video" =>
        /\ ~is_running => ActiveRecorders = {}
        /\ Cardinality(ActiveRecorders) <= 1


\* C36: whenever a recorder thread is active and has not been signalled to
\* stop, stop_handle holds the stop flag of that recorder.
C36_HandleReachesRecorder ==
    svc = "video" =>
        \A t \in ActiveRecorders : ~thr[t].flag => stop_handle = t


\* No recorder thread has returned from run_blocking without having been
\* signalled to stop.
NoRecorderError ==
    \A t \in DOMAIN thr :
        (thr[t].role = "recorder" /\ thr[t].pc \in {"returned", "reset", "exited"})
            => thr[t].flag

\* C37: when the command entered last is a start_video_recording that has
\* returned success, no command has returned an error and no recorder has
\* failed, a recorder thread is active.
C37_StartedMeansRecording ==
    (svc = "video" /\ Running /\ ~cmdFailed /\ NoRecorderError)
        => ActiveRecorders # {}


(***************************************************************************)
(* Claims about the locks and the counters of the activity service.        *)
(***************************************************************************)

\* The monitor thread has requested lock l and does not hold it yet.
MonitorRequests(l) ==
    mPc = CASE l = "keystroke_buffer" -> "keys"
            [] l = "mouse_click_count" -> "clicks"
            [] l = "mouse_scroll_count" -> "scrolls"
            [] OTHER -> "save"

\* The monitor thread never has to wait: no other thread holds a lock for
\* longer than one update.
MonitorNeverWaits ==
    \A l \in Locks \ {"is_running"} : MonitorRequests(l) => owner[l] = "none"

NoCallbackPending == iPc = 0

\* The count of e events that has been put into batches, plus the counter.
Accounted(e) ==
    reported[e] + (IF e = "click" THEN clicks ELSE scrolls)

\* C39: each click and each scroll event that occurs while the flag is true
\* is counted once: the counts put into the batches handed to
\* save_and_try_upload plus the current counter equal the number of events.
C39_EventsCountedOnce ==
    NoCallbackPending => \A e \in Counted : Accounted(e) = occurred[e]


(***************************************************************************)
(* Claims about the segments at the return of run_blocking.                *)
(***************************************************************************)

\* run_blocking has returned, with Ok or with an error.
Returned == rbPc \in {"ok", "err"}

\* The writers that were opened in this session.
OpenedSegments == {i \in Segments : segments[i].fate # "none"}

\* Segment i was finalized, and kept or removed as the frame-count check says.
SettledByCheck(i) ==
    /\ segments[i].fate \in {"retained", "deleted"}
    /\ segments[i].fate = "deleted" <=> segments[i].frames < ExpectedFrames

\* C40: when run_blocking has returned, with Ok or with the error of a
\* rotation, every segment writer it opened has been finalized and its file
\* is retained or deleted according to the frame-count check; none is left
\* open or unfinalized.
C40_SegmentsSettledAtReturn ==
    Returned => \A i \in OpenedSegments : SettledByCheck(i)

====
